---- MODULE Spec2Model ----
(***************************************************************************)
(* Connection registry, schema operations and data operations of           *)
(* yuerenge_database_mcp (db_tools/connections, db_tools/operations).      *)
(*                                                                         *)
(* The registry is the pair of dictionaries of ConnectionManager.  An      *)
(* engine (pooled handle) is a positive integer, numbered in the order     *)
(* create_engine produced it.  The database behind the engines is one      *)
(* table with a schema and rows; conn.begin / conn.execute / commit /      *)
(* rollback act on it with ordinary transaction semantics.                 *)
(***************************************************************************)
EXTENDS Integers, Sequences, FiniteSets, TLC

\* ------------------------------------------------------------------ bounds
NameOrder == <<"a", "b">>
Names == {NameOrder[i] : i \in 1..Len(NameOrder)}
MaxHandles == 3
MaxDescs == 2
MaxOps == 2
MaxRowId == 2
MaxBatch == 2
MaxPage == 3
MaxThreads == 2
MaxCols == 2
MaxCallbacks == 2

\* ------------------------------------------------------- program constants
NoHandle == 0
NoAdapter == "none"
ValueError == "ValueError"
ValidTypes == {"mysql", "sqlite"}
DbTypes == {"mysql", "sqlite", "SQLite", "nosuch"}
DescTypes == {"mysql", "sqlite"}
AddFaults == {"none", "create_engine", "test_query"}
EnabledFlags == {"true", "false", "absent"}
Cols == {"c1", "c2"}
ColTypes == {"int", "text"}
NoCol == "-"
RowIds == 1..MaxRowId
Vals == {1, 2}

\* tasks: the calls that are in progress at the same time (threads calling
\* the registry, or the insert tasks of the asynchronous batch), each with
\* its position; empty while calls are made one after the other
\* config_data: the "connections" list of the configuration manager
\* lifecycle: the position of main(), the stop flag and the threads main
\* starts, the cleanup callbacks and what the shutdown has run
VARIABLES connections, adapters, nHandles, disposed, added, db, last, tasks,
          config_data, lifecycle

vars == <<connections, adapters, nHandles, disposed, added, db, last, tasks,
          config_data, lifecycle>>

\* what the registry and the data handlers never touch
aside == <<config_data, lifecycle>>

\* --------------------------------------------------------------- helpers
EmptyMap == [x \in {} |-> FALSE]

Lower(s) == IF s = "SQLite" THEN "sqlite" ELSE IF s = "MySQL" THEN "mysql" ELSE s

Registry == [connections |-> connections, adapters |-> adapters,
             nHandles |-> nHandles, disposed |-> disposed]

ConnNames(conns) == {n \in Names : conns[n] # NoHandle}
AdapterNames(adps) == {n \in Names : adps[n] # NoAdapter}
StoredHandles(conns) == {conns[n] : n \in ConnNames(conns)}

\* the record describing the call that was made last and what it returned
NoCall == [op |-> "none", name |-> "", ret |-> "", val |-> 0, raised |-> FALSE,
           resolved |-> FALSE, created |-> NoHandle, disposeLog |-> <<>>,
           descs |-> <<>>, attempts |-> <<>>, results |-> EmptyMap,
           txLog |-> <<>>, nExecuted |-> 0, failedAt |-> 0, nStmts |-> 0,
           commit |-> FALSE, kind |-> "", effect |-> FALSE, ops |-> <<>>,
           page |-> 0, page_size |-> 0, total_records |-> 0, rows |-> <<>>,
           conditions |-> <<>>, data |-> <<>>,
           success_count |-> 0, failure_count |-> 0, failed_records |-> <<>>,
           attemptLog |-> <<>>, entryFailed |-> {},
           sql |-> <<>>, params |-> <<>>, count_sql |-> <<>>,
           count_params |-> <<>>, limit |-> 0, fetched |-> <<>>,
           bound |-> "", flag |-> ""]

BoolRet(b) == IF b THEN "True" ELSE "False"

\* main() has not been called
NoLifecycle == [pc |-> "none", should_stop |-> FALSE, stdin |-> "open",
                server |-> "none", cleanup_callbacks |-> <<>>, i |-> 0,
                ran |-> <<>>, disposeCalls |-> <<>>, atStop |-> {}]

\* ------------------------------------------------------ database (one table)
\* cols[c] is the declared type of column c (NoCol: no such column);
\* rows[k] is the value stored under primary key k (0: no such row)
NoTable == [exists |-> FALSE, cols |-> [c \in Cols |-> NoCol],
            rows |-> [k \in RowIds |-> 0]]

\* ------------------------------------------------------------ the registry
get_database_adapter(db_type) ==
    LET t == Lower(db_type) IN
    IF t \in {"mysql", "oracle", "postgresql", "sqlite", "sqlserver"}
    THEN t
    ELSE ValueError

add_connection_early_store(reg, name, db_type, fault) ==
    LET adapter == get_database_adapter(db_type) IN
    IF adapter = ValueError \/ fault = "create_engine"
    THEN [reg |-> reg, ret |-> FALSE, created |-> NoHandle]
    ELSE LET engine == reg.nHandles + 1
             stored == [reg EXCEPT !.nHandles = engine,
                                   !.connections[name] = engine,
                                   !.adapters[name] = adapter]
         IN [reg |-> stored, ret |-> (fault # "test_query"), created |-> engine]

add_connection_handle_only(reg, name, db_type, fault) ==
    LET adapter == get_database_adapter(db_type) IN
    IF adapter = ValueError \/ fault = "create_engine"
    THEN [reg |-> reg, ret |-> FALSE, created |-> NoHandle]
    ELSE LET engine == reg.nHandles + 1
             reg1 == [reg EXCEPT !.nHandles = engine]
         IN IF fault = "test_query"
            THEN [reg |-> reg1, ret |-> FALSE, created |-> engine]
            ELSE [reg |-> [reg1 EXCEPT !.connections[name] = engine],
                  ret |-> TRUE, created |-> engine]

\* add_connection: the registry after the call, the value returned, and the
\* engine create_engine produced (NoHandle when it was never reached).
\* fault names the step that raises; every exception is caught and turned
\* into False.  No branch calls engine.dispose().
\* an add whose failed test query drops the entry stored under the name
add_connection_evicting(reg, name, db_type, fault) ==
    LET adapter == get_database_adapter(db_type) IN
    IF adapter = ValueError
    THEN [reg |-> reg, ret |-> FALSE, created |-> NoHandle]
    ELSE IF fault = "create_engine"
    THEN [reg |-> reg, ret |-> FALSE, created |-> NoHandle]
    ELSE LET engine == reg.nHandles + 1
             reg1 == [reg EXCEPT !.nHandles = engine]
         IN IF fault = "test_query"
            THEN [reg |-> [reg1 EXCEPT !.connections[name] = NoHandle,
                                       !.adapters[name] = NoAdapter],
                  ret |-> FALSE, created |-> engine]
            ELSE [reg |-> [reg1 EXCEPT !.connections[name] = engine,
                                       !.adapters[name] = adapter],
                  ret |-> TRUE, created |-> engine]

add_connection(reg, name, db_type, fault) ==
    LET adapter == get_database_adapter(db_type) IN
    IF adapter = ValueError
    THEN [reg |-> reg, ret |-> FALSE, created |-> NoHandle]
    ELSE IF fault = "create_engine"
    THEN [reg |-> reg, ret |-> FALSE, created |-> NoHandle]
    ELSE LET engine == reg.nHandles + 1
             reg1 == [reg EXCEPT !.nHandles = engine]
         IN IF fault = "test_query"
            THEN [reg |-> reg1, ret |-> FALSE, created |-> engine]
            ELSE [reg |-> [reg1 EXCEPT !.connections[name] = engine,
                                       !.adapters[name] = adapter],
                  ret |-> TRUE, created |-> engine]

remove_connection_no_dispose(reg, name, disposeRaises) ==
    IF reg.connections[name] # NoHandle
    THEN [reg |-> [reg EXCEPT !.connections[name] = NoHandle,
                              !.adapters[name] = NoAdapter],
          ret |-> TRUE, disposeLog |-> <<>>]
    ELSE [reg |-> reg, ret |-> FALSE, disposeLog |-> <<>>]

\* remove_connection: dispose() comes first; when it raises nothing is
\* deleted and False is returned.
remove_connection(reg, name, disposeRaises) ==
    IF reg.connections[name] # NoHandle
    THEN LET engine == reg.connections[name] IN
         IF disposeRaises
         THEN [reg |-> reg, ret |-> FALSE, disposeLog |-> <<engine>>]
         ELSE [reg |-> [reg EXCEPT !.disposed = @ \cup {engine},
                                   !.connections[name] = NoHandle,
                                   !.adapters[name] = NoAdapter],
               ret |-> TRUE, disposeLog |-> <<engine>>]
    ELSE [reg |-> reg, ret |-> FALSE, disposeLog |-> <<>>]

RECURSIVE dispose_loop_break(_, _, _, _)
dispose_loop_break(reg, raising, i, log) ==
    IF i > Len(NameOrder) THEN [reg |-> reg, disposeLog |-> log]
    ELSE LET engine == reg.connections[NameOrder[i]] IN
         IF engine = NoHandle
         THEN dispose_loop_break(reg, raising, i + 1, log)
         ELSE IF engine \in raising
         THEN [reg |-> reg, disposeLog |-> Append(log, engine)]
         ELSE dispose_loop_break([reg EXCEPT !.disposed = @ \cup {engine}],
                                 raising, i + 1, Append(log, engine))

\* the for loop of dispose_all_connections over self.connections.items():
\* a dispose() that raises is logged and the loop goes on.
RECURSIVE dispose_loop(_, _, _, _)
dispose_loop(reg, raising, i, log) ==
    IF i > Len(NameOrder) THEN [reg |-> reg, disposeLog |-> log]
    ELSE LET engine == reg.connections[NameOrder[i]] IN
         IF engine = NoHandle
         THEN dispose_loop(reg, raising, i + 1, log)
         ELSE IF engine \in raising
         THEN dispose_loop(reg, raising, i + 1, Append(log, engine))
         ELSE dispose_loop([reg EXCEPT !.disposed = @ \cup {engine}],
                           raising, i + 1, Append(log, engine))

dispose_all_connections(reg, raising) ==
    LET r == dispose_loop(reg, raising, 1, <<>>) IN
    [reg |-> [r.reg EXCEPT !.connections = [n \in Names |-> NoHandle],
                           !.adapters = [n \in Names |-> NoAdapter]],
     disposeLog |-> r.disposeLog]

\* conn_config.get("enabled", False)
IsEnabled(c) == c.enabled = "true"

\* the for loop of initialize_from_config.  A descriptor without the
\* host/port/username/password keys raises KeyError while the parameters
\* are extracted, before add_connection is called; the handler records
\* False for it.
RECURSIVE init_loop(_, _, _, _, _, _)
init_loop(reg, descs, faults, i, results, attempts) ==
    IF i > Len(descs)
    THEN [reg |-> reg, results |-> results, attempts |-> attempts]
    ELSE LET c == descs[i] IN
         IF ~IsEnabled(c)
         THEN init_loop(reg, descs, faults, i + 1, results, attempts)
         ELSE IF ~c.complete
         THEN init_loop(reg, descs, faults, i + 1,
                        (c.name :> FALSE) @@ results, attempts)
         ELSE LET r == add_connection(reg, c.name, c.type, faults[i]) IN
              init_loop(r.reg, descs, faults, i + 1,
                        (c.name :> r.ret) @@ results,
                        Append(attempts, [idx |-> i, name |-> c.name, ok |-> r.ret]))

initialize_from_config(reg, descs, faults) ==
    init_loop(reg, descs, faults, 1, EmptyMap, <<>>)

get_connection(name) == connections[name]
get_adapter(name) == adapters[name]

\* ------------------------------------------------ the database behind conn
\* what conn.execute(statement) does to the transaction's view d of the
\* database: ok = FALSE is the driver raising.  ret is the row count.
Matching_any(d, cond) ==
    {k \in RowIds : /\ d.rows[k] # 0
                    /\ \/ cond.id # 0 /\ k = cond.id
                       \/ cond.val # 0 /\ d.rows[k] = cond.val}

\* the rows a WHERE clause selects: the AND of one equality per column the
\* clause names (0: the column is not named)
Matching(d, cond) ==
    {k \in RowIds : /\ d.rows[k] # 0
                    /\ cond.id # 0 => k = cond.id
                    /\ cond.val # 0 => d.rows[k] = cond.val}

Execute(d, stmt) ==
    CASE stmt.kind = "create" ->
           IF d.exists \/ \A c \in Cols : stmt.columns[c] = NoCol
           THEN [ok |-> FALSE, db |-> d, rowcount |-> 0]
           ELSE [ok |-> TRUE, rowcount |-> 0,
                 db |-> [exists |-> TRUE, cols |-> stmt.columns, rows |-> NoTable.rows]]
      [] stmt.kind = "drop" ->
           IF ~d.exists THEN [ok |-> FALSE, db |-> d, rowcount |-> 0]
           ELSE [ok |-> TRUE, db |-> NoTable, rowcount |-> 0]
      [] stmt.kind = "add_column" ->
           IF ~d.exists \/ d.cols[stmt.name] # NoCol
           THEN [ok |-> FALSE, db |-> d, rowcount |-> 0]
           ELSE [ok |-> TRUE, db |-> [d EXCEPT !.cols[stmt.name] = stmt.type], rowcount |-> 0]
      [] stmt.kind = "drop_column" ->
           IF ~d.exists \/ d.cols[stmt.name] = NoCol
           THEN [ok |-> FALSE, db |-> d, rowcount |-> 0]
           ELSE [ok |-> TRUE, db |-> [d EXCEPT !.cols[stmt.name] = NoCol], rowcount |-> 0]
      [] stmt.kind = "modify_column" ->
           IF ~d.exists \/ d.cols[stmt.name] = NoCol
           THEN [ok |-> FALSE, db |-> d, rowcount |-> 0]
           ELSE [ok |-> TRUE, db |-> [d EXCEPT !.cols[stmt.name] = stmt.type], rowcount |-> 0]
      [] stmt.kind = "rename_column" ->
           IF ~d.exists \/ d.cols[stmt.name] = NoCol \/ d.cols[stmt.new_name] # NoCol
           THEN [ok |-> FALSE, db |-> d, rowcount |-> 0]
           ELSE [ok |-> TRUE, rowcount |-> 0,
                 db |-> [d EXCEPT !.cols[stmt.name] = NoCol,
                                  !.cols[stmt.new_name] = stmt.type]]
      [] stmt.kind = "insert" ->
           IF ~d.exists \/ d.rows[stmt.id] # 0
           THEN [ok |-> FALSE, db |-> d, rowcount |-> 0]
           ELSE [ok |-> TRUE, db |-> [d EXCEPT !.rows[stmt.id] = stmt.val], rowcount |-> 1]
      [] stmt.kind = "update" ->
           IF ~d.exists THEN [ok |-> FALSE, db |-> d, rowcount |-> 0]
           ELSE LET m == Matching(d, stmt.cond) IN
                [ok |-> TRUE, rowcount |-> Cardinality(m),
                 db |-> [d EXCEPT !.rows = [k \in RowIds |->
                                              IF k \in m THEN stmt.val ELSE d.rows[k]]]]
      [] stmt.kind = "delete" ->
           IF ~d.exists THEN [ok |-> FALSE, db |-> d, rowcount |-> 0]
           ELSE LET m == Matching(d, stmt.cond) IN
                [ok |-> TRUE, rowcount |-> Cardinality(m),
                 db |-> [d EXCEPT !.rows = [k \in RowIds |->
                                              IF k \in m THEN 0 ELSE d.rows[k]]]]
      [] stmt.kind = "select" ->
           IF ~d.exists THEN [ok |-> FALSE, db |-> d, rowcount |-> 0]
           ELSE [ok |-> TRUE, db |-> d, rowcount |-> Cardinality(Matching(d, stmt.cond))]
      [] OTHER -> [ok |-> FALSE, db |-> d, rowcount |-> 0]

\* a statement that produces a result set; for any other statement
\* result.keys() / result.fetchall() raise ResourceClosedError
ReturnsRows(stmt) == stmt.kind = "select"

\* ------------------------------------------------------- statement builders
\* no WHERE clause
NoCond == [id |-> 0, val |-> 0]
\* conditions=None
NoCondArg == [given |-> FALSE, id |-> 0, val |-> 0]

\* paging: the clauses that limit the rows of a SELECT ("": none)
Stmt(kind) == [kind |-> kind, name |-> "", new_name |-> "", type |-> "",
               columns |-> NoTable.cols, id |-> 0, val |-> 0,
               cond |-> NoCond, paging |-> "", limit |-> 0, offset |-> 0]

\* get_count_query: SELECT COUNT(*) FROM t [WHERE ...]
get_count_query(adapter, cond) == [Stmt("select") EXCEPT !.cond = cond]

\* get_paginated_select_query: limit and offset are written after the
\* WHERE clause, as LIMIT n OFFSET m (MySQL, PostgreSQL, SQLite), as
\* FETCH FIRST n ROWS ONLY OFFSET m ROWS (Oracle) or as a ROW_NUMBER()
\* range (SQL Server)
get_paginated_select_query(adapter, cond, limit, offset) ==
    [Stmt("select") EXCEPT !.cond = cond, !.limit = limit, !.offset = offset,
                           !.paging = IF adapter = "oracle" THEN "FETCH FIRST, OFFSET"
                                      ELSE IF adapter = "sqlserver" THEN "ROW_NUMBER"
                                      ELSE "LIMIT, OFFSET"]

\* the statements the engine parses: Oracle's row limiting clause is
\* [OFFSET m ROWS] [FETCH FIRST n ROWS ONLY], in that order, so a FETCH
\* clause followed by an OFFSET clause is a syntax error (ORA-00933)
Accepts(stmt) == stmt.paging # "FETCH FIRST, OFFSET"

\* the elements of a set of row ids in ascending order: the order in which
\* the engine returns the rows of a table that is not modified
RECURSIVE Ordered(_)
Ordered(S) ==
    IF S = {} THEN <<>>
    ELSE LET k == CHOOSE x \in S : \A y \in S : x <= y
         IN <<k>> \o Ordered(S \ {k})

\* result.fetchall() of a SELECT: the matching rows, and of them those the
\* paging clauses keep
Fetch(d, stmt) ==
    LET all == Ordered(Matching(d, stmt.cond)) IN
    IF stmt.paging = "" THEN all
    ELSE SubSeq(all, stmt.offset + 1,
                IF stmt.offset + stmt.limit < Len(all)
                THEN stmt.offset + stmt.limit ELSE Len(all))

get_alter_table_statement_any_engine(adapter, operation) ==
    LET op_type == operation.operation IN
    IF op_type = "add_column"
    THEN [Stmt("add_column") EXCEPT !.name = operation.name, !.type = operation.type]
    ELSE IF op_type = "drop_column"
    THEN [Stmt("drop_column") EXCEPT !.name = operation.name]
    ELSE IF op_type = "modify_column"
    THEN [Stmt("modify_column") EXCEPT !.name = operation.name, !.type = operation.type]
    ELSE IF op_type = "rename_column"
    THEN [Stmt("rename_column") EXCEPT !.name = operation.old_name,
                                       !.new_name = operation.new_name,
                                       !.type = operation.type]
    ELSE [Stmt(ValueError) EXCEPT !.name = operation.name]

\* MySQLAdapter / SQLiteAdapter.get_alter_table_statement: the statement for
\* one operation, or ValueError when the adapter has none for its tag
get_alter_table_statement(adapter, operation) ==
    LET op_type == operation.operation IN
    IF adapter = "sqlite"
    THEN IF op_type = "add_column"
         THEN [Stmt("add_column") EXCEPT !.name = operation.name, !.type = operation.type]
         ELSE [Stmt(ValueError) EXCEPT !.name = operation.name]
    ELSE IF op_type = "add_column"
         THEN [Stmt("add_column") EXCEPT !.name = operation.name, !.type = operation.type]
    ELSE IF op_type = "drop_column"
         THEN [Stmt("drop_column") EXCEPT !.name = operation.name]
    ELSE IF op_type = "modify_column"
         THEN [Stmt("modify_column") EXCEPT !.name = operation.name, !.type = operation.type]
    ELSE IF op_type = "rename_column"
         THEN [Stmt("rename_column") EXCEPT !.name = operation.old_name,
                                            !.new_name = operation.new_name,
                                            !.type = operation.type]
    ELSE [Stmt(ValueError) EXCEPT !.name = operation.name]

\* ---------------------------------------------------------- transactions
Rollback_keeps_pending(committed, pending) == pending

\* trans.rollback() drops the statements executed since conn.begin();
\* trans.commit() makes them the database
Rollback(committed, pending) == committed

Commit(committed, pending) == pending

\* the for loop of alter_table: generate the statement of operation i and
\* execute it; the first operation that cannot be generated, or whose
\* execute raises, ends the loop with the exception
RECURSIVE exec_loop(_, _, _, _, _)
exec_loop(adapter, pending, operations, i, n) ==
    IF i > Len(operations)
    THEN [db |-> pending, nExecuted |-> n, failedAt |-> 0, rowcount |-> 0]
    ELSE LET query == get_alter_table_statement(adapter, operations[i])
             r == Execute(pending, query)
         IN IF query.kind = ValueError \/ ~r.ok
            THEN [db |-> pending, nExecuted |-> n, failedAt |-> i, rowcount |-> 0]
            ELSE exec_loop(adapter, r.db, operations, i + 1, n + 1)

\* the block every single-statement mutating handler runs:
\*   with engine.connect() as conn:
\*       trans = conn.begin()
\*       try:    result = conn.execute(text(query), params); trans.commit()
\*       except: trans.rollback(); raise
\* fault names the call that raises for a reason of the connection itself;
\* raised = TRUE is the exception reaching the handler's outer except.
\* (A rollback() that raises leaves the with block, whose exit closes the
\* connection and so ends the transaction the same way.)
transaction_no_rollback(d, query, fault) ==
    LET r == Execute(d, query) IN
    IF fault = "execute" \/ ~r.ok
    THEN [db |-> d, txLog |-> <<"begin">>, raised |-> TRUE,
          nExecuted |-> 0, failedAt |-> 1, rowcount |-> 0]
    ELSE IF fault = "commit"
    THEN [db |-> d, txLog |-> <<"begin">>, raised |-> TRUE,
          nExecuted |-> 1, failedAt |-> 0, rowcount |-> 0]
    ELSE [db |-> Commit(d, r.db), txLog |-> <<"begin", "commit">>, raised |-> FALSE,
          nExecuted |-> 1, failedAt |-> 0, rowcount |-> r.rowcount]

transaction(d, query, fault) ==
    LET r == Execute(d, query) IN
    IF fault = "execute" \/ ~r.ok
    THEN [db |-> Rollback(d, r.db), txLog |-> <<"begin", "rollback">>, raised |-> TRUE,
          nExecuted |-> 0, failedAt |-> 1, rowcount |-> 0]
    ELSE IF fault = "commit"
    THEN [db |-> Rollback(d, r.db), txLog |-> <<"begin", "rollback">>, raised |-> TRUE,
          nExecuted |-> 1, failedAt |-> 0, rowcount |-> 0]
    ELSE [db |-> Commit(d, r.db), txLog |-> <<"begin", "commit">>, raised |-> FALSE,
          nExecuted |-> 1, failedAt |-> 0, rowcount |-> r.rowcount]

\* ------------------------------------------------------ schema operations
Call(op, name) == [NoCall EXCEPT !.op = op, !.name = name]

\* the two lookups every handler starts with (get_connection, get_adapter)
Resolves(name) == get_connection(name) # NoHandle /\ get_adapter(name) # NoAdapter

Outcome_propagates(call, t, okRet, failValue) ==
    [db |-> t.db,
     call |-> [call EXCEPT !.resolved = TRUE, !.txLog = t.txLog,
                           !.nExecuted = t.nExecuted, !.failedAt = t.failedAt,
                           !.ret = IF t.raised THEN "" ELSE okRet,
                           !.raised = t.raised,
                           !.val = IF t.raised THEN 0 ELSE t.rowcount]]

\* the handler's result when the transaction block ended as t:
\* the outer except clauses turn an exception into failValue
Outcome(call, t, okRet, failValue) ==
    [db |-> t.db,
     call |-> [call EXCEPT !.resolved = TRUE, !.txLog = t.txLog,
                           !.nExecuted = t.nExecuted, !.failedAt = t.failedAt,
                           !.ret = IF t.raised THEN failValue ELSE okRet,
                           !.val = IF t.raised THEN 0 ELSE t.rowcount]]

create_table(name, columns, fault) ==
    LET call == [Call("create_table", name) EXCEPT !.nStmts = 1] IN
    IF ~Resolves(name)
    THEN [db |-> db, call |-> [call EXCEPT !.ret = "False"]]
    ELSE LET query == [Stmt("create") EXCEPT !.columns = columns] IN
         Outcome(call, transaction(db, query, fault), "True", "False")

drop_table(name, fault) ==
    LET call == [Call("drop_table", name) EXCEPT !.nStmts = 1] IN
    IF ~Resolves(name)
    THEN [db |-> db, call |-> [call EXCEPT !.ret = "False"]]
    ELSE Outcome(call, transaction(db, Stmt("drop"), fault), "True", "False")

\* alter_table: one conn.begin() before the loop, one commit after it, one
\* rollback in the except clause
alter_table(name, operations, commitFails) ==
    LET call == [Call("alter_table", name) EXCEPT !.nStmts = Len(operations)] IN
    IF ~Resolves(name)
    THEN [db |-> db, call |-> [call EXCEPT !.ret = "False"]]
    ELSE LET body == exec_loop(get_adapter(name), db, operations, 1, 0)
             failed == body.failedAt # 0 \/ commitFails
         IN Outcome(call,
                    [db |-> IF failed THEN Rollback(db, body.db)
                            ELSE Commit(db, body.db),
                     txLog |-> IF failed THEN <<"begin", "rollback">>
                               ELSE <<"begin", "commit">>,
                     raised |-> failed, nExecuted |-> body.nExecuted,
                     failedAt |-> body.failedAt, rowcount |-> 0],
                    "True", "False")

\* list_tables / get_table_structure: no transaction; an exception is None
list_tables(name, fault) ==
    LET call == Call("list_tables", name) IN
    IF ~Resolves(name)
    THEN [db |-> db, call |-> [call EXCEPT !.ret = "None"]]
    ELSE [db |-> db,
          call |-> [call EXCEPT !.resolved = TRUE,
                                !.failedAt = IF fault = "execute" THEN 1 ELSE 0,
                                !.ret = IF fault = "execute" THEN "None" ELSE "rows"]]

get_table_structure(name, fault) ==
    LET call == Call("get_table_structure", name) IN
    IF ~Resolves(name)
    THEN [db |-> db, call |-> [call EXCEPT !.ret = "None"]]
    ELSE LET fails == fault = "execute" \/ (get_adapter(name) = "mysql" /\ ~db.exists) IN
         [db |-> db,
          call |-> [call EXCEPT !.resolved = TRUE,
                                !.failedAt = IF fails THEN 1 ELSE 0,
                                !.ret = IF fails THEN "None" ELSE "rows"]]

\* -------------------------------------------------------- data operations
\* execute_query: a transaction only when commit is set; the rows are
\* fetched after the commit, and the except clause rolls back whatever
\* raised.  Without commit the statement's effect survives the closing of
\* the connection only where the library autocommits (autocommit).
execute_query(name, query, commit, fault, autocommit) ==
    LET call == [Call("execute_query", name) EXCEPT !.nStmts = 1, !.commit = commit,
                                                     !.kind = query.kind] IN
    IF get_connection(name) = NoHandle
    THEN [db |-> db, call |-> [call EXCEPT !.ret = "None"]]
    ELSE LET r == Execute(db, query) IN
         IF fault = "execute" \/ ~r.ok
         THEN [db |-> IF commit THEN Rollback(db, r.db) ELSE db,
               call |-> [call EXCEPT !.resolved = TRUE, !.ret = "None", !.failedAt = 1,
                                     !.txLog = IF commit THEN <<"begin", "rollback">> ELSE <<>>]]
         ELSE IF commit /\ fault = "commit"
         THEN [db |-> Rollback(db, r.db),
               call |-> [call EXCEPT !.resolved = TRUE, !.ret = "None", !.nExecuted = 1,
                                     !.txLog = <<"begin", "rollback">>]]
         ELSE LET after == IF commit THEN Commit(db, r.db)
                           ELSE IF autocommit THEN r.db ELSE db
              IN IF ~ReturnsRows(query) \/ fault = "fetch"
                 THEN [db |-> after,
                       call |-> [call EXCEPT !.resolved = TRUE, !.ret = "None", !.nExecuted = 1,
                                             !.txLog = IF commit
                                                       THEN <<"begin", "commit", "rollback">>
                                                       ELSE <<>>]]
                 ELSE [db |-> after,
                       call |-> [call EXCEPT !.resolved = TRUE, !.ret = "rows", !.nExecuted = 1,
                                             !.val = r.rowcount,
                                             !.txLog = IF commit THEN <<"begin", "commit">>
                                                       ELSE <<>>]]

\* execute_query with its params argument: "None", "dict", or a boolean
\* "True" / "False" that a caller put in its place.  `if params:` passes a
\* truthy value to conn.execute, which accepts a mapping and raises for
\* anything else.
data_execute_query(name, query, params, commit, fault, autocommit) ==
    LET r == execute_query(name, query, commit,
                           IF params = "True" THEN "execute" ELSE fault, autocommit)
    IN [r EXCEPT !.call.bound = params]

\* DatabaseManager.execute_query(*args, **kwargs): the positional arguments
\* go to DataManager.execute_query(connection_name, query, params, commit)
\* in order, the ones not given take their defaults
facade_execute_query(args, fault, autocommit) ==
    data_execute_query(args[1], args[2],
                       IF Len(args) >= 3 THEN args[3] ELSE "None",
                       IF Len(args) >= 4 THEN args[4] = "True" ELSE FALSE,
                       fault, autocommit)

\* the execute_query tool: db_manager.execute_query(connection_name, query,
\* commit)
tool_execute_query(connection_name, query, commit, fault, autocommit) ==
    LET r == facade_execute_query(<<connection_name, query, BoolRet(commit)>>,
                                  fault, autocommit)
    IN [r EXCEPT !.call.flag = BoolRet(commit)]

select_data(name, cond, fault) ==
    LET call == Call("select_data", name) IN
    IF ~Resolves(name)
    THEN [db |-> db, call |-> [call EXCEPT !.ret = "None"]]
    ELSE LET r == Execute(db, [Stmt("select") EXCEPT !.cond = cond])
             fails == fault = "execute" \/ ~r.ok
         IN [db |-> db,
             call |-> [call EXCEPT !.resolved = TRUE,
                                   !.failedAt = IF fails THEN 1 ELSE 0,
                                   !.ret = IF fails THEN "None" ELSE "rows",
                                   !.val = IF fails THEN 0 ELSE r.rowcount]]

\* select_data_with_pagination: COUNT query, then total_pages by integer
\* division (page_size 0 is a ZeroDivisionError, caught like any other), then
\* the page query on the same connection; val is total_pages.  result is
\* the dictionary returned on success.
select_data_with_pagination(name, page, page_size, cond, fault) ==
    LET call == Call("select_data_with_pagination", name)
        NoResult == [total_records |-> 0, data |-> <<>>]
    IN
    IF ~Resolves(name)
    THEN [db |-> db, call |-> [call EXCEPT !.ret = "None"], result |-> NoResult]
    ELSE LET adapter == get_adapter(name)
             r == Execute(db, get_count_query(adapter, cond))
             total_records == r.rowcount
             offset == (page - 1) * page_size
             query == get_paginated_select_query(adapter, cond, page_size, offset)
             fails == \/ fault = "execute" \/ ~r.ok
                      \/ page_size = 0
                      \/ ~Accepts(query)
         IN [db |-> db,
             call |-> [call EXCEPT !.resolved = TRUE,
                                   !.failedAt = IF fault = "execute" \/ ~r.ok THEN 1 ELSE 0,
                                   !.ret = IF fails THEN "None" ELSE "page",
                                   !.val = IF fails THEN 0
                                           ELSE (total_records + page_size - 1) \div page_size],
             result |-> IF fails THEN NoResult
                        ELSE [total_records |-> total_records,
                              data |-> Fetch(db, query)]]

\* d is the database when the call is made
insert_data(d, name, id, val, fault) ==
    LET call == [Call("insert_data", name) EXCEPT !.nStmts = 1] IN
    IF ~Resolves(name)
    THEN [db |-> d, call |-> [call EXCEPT !.ret = "False"]]
    ELSE LET query == [Stmt("insert") EXCEPT !.id = id, !.val = val]
             t == transaction(d, query, fault)
         IN Outcome(call, [t EXCEPT !.rowcount = 0], "True", "False")

\* update_data / delete_data: result.rowcount is read after the commit
update_data(d, name, val, cond, fault) ==
    LET call == [Call("update_data", name) EXCEPT !.nStmts = 1] IN
    IF ~Resolves(name)
    THEN [db |-> d, call |-> [call EXCEPT !.ret = "-1"]]
    ELSE LET query == [Stmt("update") EXCEPT !.val = val, !.cond = cond] IN
         Outcome(call, transaction(d, query, fault), "int", "-1")

delete_data(d, name, cond, fault) ==
    LET call == [Call("delete_data", name) EXCEPT !.nStmts = 1] IN
    IF ~Resolves(name)
    THEN [db |-> d, call |-> [call EXCEPT !.ret = "-1"]]
    ELSE LET query == [Stmt("delete") EXCEPT !.cond = cond] IN
         Outcome(call, transaction(d, query, fault), "int", "-1")

\* the WHERE clause the adapters build from the conditions argument:
\* "if conditions:" is false for None and for an empty mapping, and then
\* the statement has no WHERE clause
Where(conditions) ==
    IF conditions.given /\ (conditions.id # 0 \/ conditions.val # 0)
    THEN [id |-> conditions.id, val |-> conditions.val]
    ELSE NoCond

\* ------------------------------------------------------- batch operations
\* what one entry adds to the batch's counters; i is the entry's position
\* in the list, counted from 1 (enumerate counts from 0)
Tally(acc, i, ok, txLog) ==
    [acc EXCEPT !.success_count = IF ok THEN @ + 1 ELSE @,
                !.failure_count = IF ok THEN @ ELSE @ + 1,
                !.failed_records = IF ok THEN @ ELSE Append(@, i - 1),
                !.entryFailed = IF ok THEN @ ELSE @ \cup {i - 1},
                !.attemptLog = Append(@, i - 1),
                !.txLog = @ \o txLog]

RECURSIVE batch_insert_loop_break(_, _, _, _, _, _)
batch_insert_loop_break(d, name, data_list, faults, i, acc) ==
    IF i > Len(data_list) THEN [db |-> d, call |-> acc]
    ELSE LET r == insert_data(d, name, data_list[i].id, data_list[i].val, faults[i])
             ok == r.call.ret = "True"
         IN IF ok
            THEN batch_insert_loop_break(r.db, name, data_list, faults, i + 1,
                                         Tally(acc, i, ok, r.call.txLog))
            ELSE [db |-> r.db, call |-> Tally(acc, i, ok, r.call.txLog)]

\* the for loop of batch_insert_data: insert_data for every record, each
\* call with its own connection and transaction
RECURSIVE batch_insert_loop(_, _, _, _, _, _)
batch_insert_loop(d, name, data_list, faults, i, acc) ==
    IF i > Len(data_list) THEN [db |-> d, call |-> acc]
    ELSE LET r == insert_data(d, name, data_list[i].id, data_list[i].val, faults[i])
             ok == r.call.ret = "True"
         IN batch_insert_loop(r.db, name, data_list, faults, i + 1,
                              Tally(acc, i, ok, r.call.txLog))

batch_insert_data_one_transaction(d, name, data_list, faults) ==
    LET r == batch_insert_loop(d, name, data_list, faults, 1,
                               [Call("batch_insert_data", name) EXCEPT !.ret = "dict"])
    IN [db |-> IF r.call.failure_count > 0 THEN d ELSE r.db, call |-> r.call]

batch_insert_data(d, name, data_list, faults) ==
    batch_insert_loop(d, name, data_list, faults, 1,
                      [Call("batch_insert_data", name) EXCEPT !.ret = "dict"])

\* the for loop of batch_update_data over zip(data_list, conditions_list);
\* an entry succeeded when update_data returned a count >= 0
RECURSIVE batch_update_loop(_, _, _, _, _, _, _)
batch_update_loop(d, name, data_list, conditions_list, faults, i, acc) ==
    IF i > Len(data_list) \/ i > Len(conditions_list) THEN [db |-> d, call |-> acc]
    ELSE LET r == update_data(d, name, data_list[i], Where(conditions_list[i]), faults[i])
             ok == r.call.ret # "-1"
         IN batch_update_loop(r.db, name, data_list, conditions_list, faults, i + 1,
                              [Tally(acc, i, ok, r.call.txLog)
                                  EXCEPT !.val = IF ok THEN @ + r.call.val ELSE @])

batch_update_data_zip(d, name, data_list, conditions_list, faults) ==
    batch_update_loop(d, name, data_list, conditions_list, faults, 1,
                      [Call("batch_update_data", name) EXCEPT !.ret = "dict"])

\* batch_update_data: ValueError before the loop when the lists differ in
\* length
batch_update_data(d, name, data_list, conditions_list, faults) ==
    IF Len(data_list) # Len(conditions_list)
    THEN [db |-> d,
          call |-> [Call("batch_update_data", name) EXCEPT !.ret = ValueError,
                                                           !.raised = TRUE]]
    ELSE batch_update_loop(d, name, data_list, conditions_list, faults, 1,
                           [Call("batch_update_data", name) EXCEPT !.ret = "dict"])

\* the for loop of batch_delete_data
RECURSIVE batch_delete_loop(_, _, _, _, _, _)
batch_delete_loop(d, name, conditions_list, faults, i, acc) ==
    IF i > Len(conditions_list) THEN [db |-> d, call |-> acc]
    ELSE LET r == delete_data(d, name, Where(conditions_list[i]), faults[i])
             ok == r.call.ret # "-1"
         IN batch_delete_loop(r.db, name, conditions_list, faults, i + 1,
                              [Tally(acc, i, ok, r.call.txLog)
                                  EXCEPT !.val = IF ok THEN @ + r.call.val ELSE @])

batch_delete_data(d, name, conditions_list, faults) ==
    batch_delete_loop(d, name, conditions_list, faults, 1,
                      [Call("batch_delete_data", name) EXCEPT !.ret = "dict"])

\* ------------------------------------------------------- registry actions
SetRegistry(reg) ==
    /\ connections' = reg.connections
    /\ adapters' = reg.adapters
    /\ nHandles' = reg.nHandles
    /\ disposed' = reg.disposed
    /\ tasks' = tasks
    /\ UNCHANGED aside

Add ==
    \E name \in Names, db_type \in DbTypes, fault \in AddFaults :
        /\ nHandles < MaxHandles
        /\ LET r == add_connection(Registry, name, db_type, fault) IN
           /\ SetRegistry(r.reg)
           /\ added' = IF r.ret THEN added \cup {name} ELSE added
           /\ last' = [NoCall EXCEPT !.op = "add", !.name = name,
                                     !.ret = BoolRet(r.ret),
                                     !.created = r.created,
                                     !.kind = IF get_database_adapter(db_type) = ValueError
                                              THEN "adapter" ELSE fault]
        /\ UNCHANGED db

Remove ==
    \E name \in Names, disposeRaises \in BOOLEAN :
        /\ LET r == remove_connection(Registry, name, disposeRaises) IN
           /\ SetRegistry(r.reg)
           /\ added' = IF r.ret THEN added \ {name} ELSE added
           /\ last' = [NoCall EXCEPT !.op = "remove", !.name = name,
                                     !.ret = BoolRet(r.ret),
                                     !.disposeLog = r.disposeLog,
                                     !.kind = IF disposeRaises THEN "dispose raises" ELSE ""]
        /\ UNCHANGED db

\* descriptors that passed configuration validation: name and type are
\* present; a sqlite descriptor needs only its database path and is
\* enumerated without the host/port/username/password keys.  Name, type
\* and keys of a descriptor that is not enabled are never read (the loop
\* continues before conn_config["name"]), so one of each stands for all.
Descriptors ==
    {c \in [name : Names, type : DescTypes, enabled : EnabledFlags,
            complete : BOOLEAN] :
        /\ c.complete <=> (c.type # "sqlite")
        /\ c.enabled # "true" => c.type = "mysql" /\ c.name = NameOrder[1]}

\* failing: the descriptors whose test query raises inside add_connection
InitializeFromConfig ==
    \E n \in 0..MaxDescs :
     /\ nHandles + n <= MaxHandles
     /\ \E descs \in [1..n -> Descriptors] :
      /\ \E failing \in SUBSET {i \in 1..Len(descs) :
                                   IsEnabled(descs[i]) /\ descs[i].complete} :
           LET faults == [i \in 1..Len(descs) |->
                            IF i \in failing THEN "test_query" ELSE "none"]
               r == initialize_from_config(Registry, descs, faults)
           IN /\ SetRegistry(r.reg)
              /\ added' = added \cup {r.attempts[i].name :
                                        i \in {j \in 1..Len(r.attempts) : r.attempts[j].ok}}
              /\ last' = [NoCall EXCEPT !.op = "initialize", !.ret = "map",
                                        !.descs = [i \in 1..Len(descs) |->
                                                     [name |-> descs[i].name,
                                                      enabled |-> descs[i].enabled]],
                                        !.attempts = r.attempts,
                                        !.results = r.results]
      /\ UNCHANGED db

DisposeAll ==
    \E raising \in SUBSET StoredHandles(connections) :
        /\ LET r == dispose_all_connections(Registry, raising) IN
           /\ SetRegistry(r.reg)
           /\ added' = {}
           /\ last' = [NoCall EXCEPT !.op = "disposeAll", !.ret = "None",
                                     !.disposeLog = r.disposeLog]
        /\ UNCHANGED db

\* ------------------------------------------------------ operation actions
TxFaults == {"none", "execute", "commit"}
ReadFaults == {"none", "execute"}
QueryFaults == {"none", "execute", "commit", "fetch"}
Conds == {NoCond, [id |-> 1, val |-> 0], [id |-> 0, val |-> 1]}
ColumnLists == {NoTable.cols,
                [c \in Cols |-> IF c = "c1" THEN "int" ELSE NoCol],
                [c \in Cols |-> IF c = "c2" THEN "int" ELSE NoCol]}
AlterOps == {[operation |-> "add_column", name |-> "c1", old_name |-> "", new_name |-> "", type |-> "int"],
             [operation |-> "drop_column", name |-> "c1", old_name |-> "", new_name |-> "", type |-> ""],
             [operation |-> "modify_column", name |-> "c2", old_name |-> "", new_name |-> "", type |-> "text"],
             [operation |-> "rename_column", name |-> "", old_name |-> "c1", new_name |-> "c2", type |-> "int"]}
OpLists == UNION {[1..n -> AlterOps] : n \in 0..MaxOps}
RawQueries == {Stmt("select"),
               [Stmt("insert") EXCEPT !.id = 1, !.val = 1],
               Stmt("delete"),
               Stmt("syntax error")}

\* the inputs enumerated with a name: all of them when the name resolves,
\* one representative set when it does not (the handler returns before it
\* reads them)
For(name, S, T) == IF Resolves(name) THEN S ELSE T

\* the registry is not touched by a schema or data operation
Returns(r) ==
    /\ db' = r.db
    /\ last' = [r.call EXCEPT !.effect = (r.db # db)]
    /\ UNCHANGED <<connections, adapters, nHandles, disposed, added, tasks>>
    /\ UNCHANGED aside

CreateTable ==
    \E name \in Names :
      \E columns \in For(name, ColumnLists, {NoTable.cols}),
         fault \in For(name, TxFaults, {"none"}) :
        Returns(create_table(name, columns, fault))

DropTable ==
    \E name \in Names :
      \E fault \in For(name, TxFaults, {"none"}) :
        Returns(drop_table(name, fault))

\* the loop of the call gets as far as trans.commit()
Commits(name, operations) ==
    exec_loop(get_adapter(name), db, operations, 1, 0).failedAt = 0

AlterTable ==
    \E name \in Names :
      \E operations \in For(name, OpLists, [1..1 -> AlterOps]) :
        \E commitFails \in IF Resolves(name) /\ Commits(name, operations)
                            THEN BOOLEAN ELSE {FALSE} :
        LET r == alter_table(name, operations, commitFails) IN
        Returns([r EXCEPT !.call.ops = operations])

ListTables ==
    \E name \in Names :
      \E fault \in For(name, ReadFaults, {"none"}) :
        Returns(list_tables(name, fault))

DescribeTable ==
    \E name \in Names :
      \E fault \in For(name, ReadFaults, {"none"}) :
        Returns(get_table_structure(name, fault))

ExecuteQuery ==
    \E name \in Names :
      \E query \in For(name, RawQueries, {Stmt("select")}), commit \in BOOLEAN,
         fault \in For(name, QueryFaults, {"none"}),
         autocommit \in For(name, BOOLEAN, {FALSE}) :
        /\ fault = "commit" => commit
        /\ autocommit => ~commit
        /\ Returns(execute_query(name, query, commit, fault, autocommit))

Select ==
    \E name \in Names :
      \E cond \in For(name, Conds, {NoCond}),
         fault \in For(name, ReadFaults, {"none"}) :
        Returns(select_data(name, cond, fault))

SelectPaginated ==
    \E name \in Names :
      \E page \in For(name, 1..2, {1}), page_size \in For(name, 0..1, {1}),
         cond \in For(name, Conds, {NoCond}),
         fault \in For(name, ReadFaults, {"none"}) :
        Returns(select_data_with_pagination(name, page, page_size, cond, fault))

\* the first and the last key
Insert ==
    \E name \in Names :
      \E id \in For(name, {1, MaxRowId}, {1}), val \in For(name, Vals, {1}),
         fault \in For(name, TxFaults, {"none"}) :
        Returns(insert_data(db, name, id, val, fault))

Update ==
    \E name \in Names :
      \E val \in For(name, Vals, {1}), cond \in For(name, Conds, {NoCond}),
         fault \in For(name, TxFaults, {"none"}) :
        Returns(update_data(db, name, val, cond, fault))

Delete ==
    \E name \in Names :
      \E cond \in For(name, Conds, {NoCond}),
         fault \in For(name, TxFaults, {"none"}) :
        Returns(delete_data(db, name, cond, fault))

Init ==
    /\ connections = [n \in Names |-> NoHandle]
    /\ adapters = [n \in Names |-> NoAdapter]
    /\ nHandles = 0
    /\ disposed = {}
    /\ added = {}
    /\ db = NoTable
    /\ last = NoCall
    /\ tasks = <<>>
    /\ config_data = <<>>
    /\ lifecycle = NoLifecycle

Next == Add \/ Remove \/ InitializeFromConfig \/ DisposeAll

Spec == Init /\ [][Next]_vars

\* the operations on a registry in which add_connection("a", ...) has
\* succeeded and "b" was never added
InitOps ==
    /\ \E t \in ValidTypes :
          /\ connections = [n \in Names |-> IF n = "a" THEN 1 ELSE NoHandle]
          /\ adapters = [n \in Names |-> IF n = "a" THEN t ELSE NoAdapter]
    /\ nHandles = 1
    /\ disposed = {}
    /\ added = {"a"}
    /\ db = NoTable
    /\ last = [NoCall EXCEPT !.op = "add", !.name = "a", !.ret = "True", !.created = 1]
    /\ tasks = <<>>
    /\ config_data = <<>>
    /\ lifecycle = NoLifecycle

NextOps ==
    \/ CreateTable \/ DropTable \/ AlterTable \/ ListTables \/ DescribeTable
    \/ ExecuteQuery \/ Select \/ SelectPaginated \/ Insert \/ Update \/ Delete

SpecOps == InitOps /\ [][NextOps]_vars

\* ------------------------------------------------- the execute_query tool
ToolExecuteQuery ==
    \E name \in Names :
      \E query \in For(name, RawQueries, {Stmt("select")}), commit \in BOOLEAN,
         fault \in For(name, {"none", "execute", "fetch"}, {"none"}),
         autocommit \in For(name, BOOLEAN, {FALSE}) :
        Returns(tool_execute_query(name, query, commit, fault, autocommit))

NextTool == ToolExecuteQuery \/ ExecuteQuery \/ CreateTable \/ Insert

SpecTool == InitOps /\ [][NextTool]_vars

\* ------------------------------------------- batch and conditional actions
\* the conditions argument: None (given = FALSE) or a mapping, which may be
\* empty, of the columns id and val to the value each must equal
CondArgs == {c \in [given : BOOLEAN, id : {0, 1}, val : {0, 1, 2}] :
                /\ ~c.given => (c.id = 0 /\ c.val = 0)
                /\ c.val = 2 => c.id = 1}
BatchConds == {[given |-> TRUE, id |-> 1, val |-> 0],
               [given |-> FALSE, id |-> 0, val |-> 0]}
Records == [id : RowIds, val : {1}]
EntryFaults == {"none", "execute"}
Lists(S) == UNION {[1..n -> S] : n \in 0..MaxBatch}

\* the statement of at most one entry is made to raise; an entry also
\* fails by itself (duplicate key, missing row or table)
FaultLists(n) == {[i \in 1..n |-> IF i = k THEN "execute" ELSE "none"] : k \in 0..n}

\* a table with the column val, holding any rows
Tables == {[exists |-> TRUE, cols |-> [c \in Cols |-> "int"], rows |-> r] :
              r \in [RowIds -> {0} \cup Vals]}

BatchInsert ==
    \E name \in Names :
      \E data_list \in For(name, Lists(Records), [1..1 -> Records]) :
        \E faults \in For(name, FaultLists(Len(data_list)),
                                 {[i \in 1..Len(data_list) |-> "none"]}) :
          LET r == batch_insert_data(db, name, data_list, faults) IN
          Returns([r EXCEPT !.call.data = data_list])

\* the lists of a call whose lengths differ are never read
BatchUpdate ==
    \E name \in Names :
      \E n \in For(name, 0..MaxBatch, {1}), m \in For(name, 0..MaxBatch, {1, 2}) :
        \E data_list \in IF n = m THEN [1..n -> {2}] ELSE {[i \in 1..n |-> 2]},
           conditions_list \in IF n = m /\ Resolves(name) THEN [1..m -> BatchConds]
                               ELSE {[i \in 1..m |-> NoCondArg]},
           faults \in IF n = m /\ Resolves(name) THEN FaultLists(n)
                      ELSE {[i \in 1..n |-> "none"]} :
          LET r == batch_update_data(db, name, data_list, conditions_list, faults) IN
          Returns([r EXCEPT !.call.data = data_list,
                            !.call.conditions = conditions_list])

BatchDelete ==
    \E name \in Names :
      \E conditions_list \in For(name, Lists(BatchConds), [1..1 -> BatchConds]) :
        \E faults \in For(name, FaultLists(Len(conditions_list)),
                                 {[i \in 1..Len(conditions_list) |-> "none"]}) :
          LET r == batch_delete_data(db, name, conditions_list, faults) IN
          Returns([r EXCEPT !.call.conditions = conditions_list])

UpdateWhere ==
    \E name \in Names :
      \E val \in For(name, Vals, {1}), conditions \in For(name, CondArgs, {NoCondArg}),
         fault \in For(name, EntryFaults, {"none"}) :
        LET r == update_data(db, name, val, Where(conditions), fault) IN
        Returns([r EXCEPT !.call.data = <<val>>, !.call.conditions = <<conditions>>,
                          !.call.kind = fault])

DeleteWhere ==
    \E name \in Names :
      \E conditions \in For(name, CondArgs, {NoCondArg}),
         fault \in For(name, EntryFaults, {"none"}) :
        LET r == delete_data(db, name, Where(conditions), fault) IN
        Returns([r EXCEPT !.call.conditions = <<conditions>>, !.call.kind = fault])

\* the data operations on a registry in which "a" was added, on a database
\* in which the table is absent or holds any rows
InitData ==
    /\ \E t \in ValidTypes :
          /\ connections = [n \in Names |-> IF n = "a" THEN 1 ELSE NoHandle]
          /\ adapters = [n \in Names |-> IF n = "a" THEN t ELSE NoAdapter]
    /\ nHandles = 1
    /\ disposed = {}
    /\ added = {"a"}
    /\ db \in {NoTable} \cup Tables
    /\ last = [NoCall EXCEPT !.op = "add", !.name = "a", !.ret = "True", !.created = 1]
    /\ tasks = <<>>
    /\ config_data = <<>>
    /\ lifecycle = NoLifecycle

NextData == BatchInsert \/ BatchUpdate \/ BatchDelete \/ UpdateWhere \/ DeleteWhere

SpecData == InitData /\ [][NextData]_vars

\* ------------------------------------------------------------ pagination
AllAdapters == {"mysql", "oracle", "postgresql", "sqlite", "sqlserver"}

SelectPage ==
    \E name \in Names :
      \E page \in For(name, 1..MaxPage, {1}), page_size \in For(name, 0..MaxRowId, {1}),
         cond \in For(name, Conds, {NoCond}),
         fault \in For(name, ReadFaults, {"none"}) :
        LET r == select_data_with_pagination(name, page, page_size, cond, fault) IN
        Returns([db |-> r.db,
                 call |-> [r.call EXCEPT !.page = page, !.page_size = page_size,
                                         !.conditions = <<cond>>, !.kind = fault,
                                         !.total_records = r.result.total_records,
                                         !.rows = r.result.data]])

\* the table changes between two calls
InsertRow ==
    \E name \in Names :
      \E id \in For(name, RowIds, {1}) :
        Returns(insert_data(db, name, id, 1, "none"))

\* paginated reads through a connection of any of the five adapters
InitPage ==
    /\ \E t \in AllAdapters :
          /\ connections = [n \in Names |-> IF n = "a" THEN 1 ELSE NoHandle]
          /\ adapters = [n \in Names |-> IF n = "a" THEN t ELSE NoAdapter]
    /\ nHandles = 1
    /\ disposed = {}
    /\ added = {"a"}
    /\ db \in {NoTable} \cup Tables
    /\ last = [NoCall EXCEPT !.op = "add", !.name = "a", !.ret = "True", !.created = 1]
    /\ tasks = <<>>
    /\ config_data = <<>>
    /\ lifecycle = NoLifecycle

NextPage == SelectPage \/ InsertRow

SpecPage == InitPage /\ [][NextPage]_vars

\* --------------------------------------------- concurrent registry callers
\* Threads call add_connection, remove_connection, dispose_all_connections
\* and a handler's two lookups on one ConnectionManager.  The class takes no
\* lock, so a step is one dictionary operation (the interpreter makes each
\* of those atomic) and the steps of different threads interleave freely.
Threads == 1..MaxThreads

Idle == [op |-> "none", name |-> "", pc |-> "idle", engine |-> NoHandle,
         gotHandle |-> NoHandle, gotAdapter |-> NoAdapter,
         iter |-> 0, used |-> 0, raised |-> FALSE, ret |-> "", emptyAtReturn |-> FALSE]

Step(t, rec) == tasks' = [tasks EXCEPT ![t] = rec] /\ UNCHANGED aside
Done(t, ret) == [tasks[t] EXCEPT !.pc = "done", !.ret = ret]

\* a thread enters one of the methods; dispose_all_connections creates the
\* iterator of self.connections.items(), which remembers the size of the
\* dictionary
Start(t) ==
    /\ tasks[t].pc \in {"idle", "done"}
    /\ \E op \in {"add", "remove", "dispose_all", "lookup"}, name \in Names :
          /\ op = "add" => nHandles < MaxHandles
          /\ op = "dispose_all" => name = NameOrder[1]
          /\ Step(t, [Idle EXCEPT !.op = op,
                                  !.name = IF op = "dispose_all" THEN "" ELSE name,
                                  !.used = Cardinality(ConnNames(connections)),
                                  !.pc = CASE op = "add" -> "create_engine"
                                           [] op = "remove" -> "check"
                                           [] op = "dispose_all" -> "next"
                                           [] OTHER -> "get_connection"])
    /\ UNCHANGED <<connections, adapters, nHandles, disposed, added, db, last>>

\* add_connection: create_engine and the test query
AddCreateEngine(t) ==
    /\ tasks[t].pc = "create_engine"
    /\ nHandles < MaxHandles
    /\ nHandles' = nHandles + 1
    /\ Step(t, [tasks[t] EXCEPT !.engine = nHandles + 1, !.pc = "store_connection"])
    /\ UNCHANGED <<connections, adapters, disposed, added, db, last>>

\* self.connections[name] = engine
AddStoreConnection(t) ==
    /\ tasks[t].pc = "store_connection"
    /\ connections' = [connections EXCEPT ![tasks[t].name] = tasks[t].engine]
    /\ Step(t, [tasks[t] EXCEPT !.pc = "store_adapter"])
    /\ UNCHANGED <<adapters, nHandles, disposed, added, db, last>>

\* self.adapters[name] = adapter; return True
AddStoreAdapter(t) ==
    /\ tasks[t].pc = "store_adapter"
    /\ adapters' = [adapters EXCEPT ![tasks[t].name] = "mysql"]
    /\ added' = added \cup {tasks[t].name}
    /\ Step(t, Done(t, "True"))
    /\ UNCHANGED <<connections, nHandles, disposed, db, last>>

\* if name in self.connections
RemoveCheck(t) ==
    /\ tasks[t].pc = "check"
    /\ Step(t, IF connections[tasks[t].name] # NoHandle
               THEN [tasks[t] EXCEPT !.pc = "dispose"]
               ELSE Done(t, "False"))
    /\ UNCHANGED <<connections, adapters, nHandles, disposed, added, db, last>>

\* self.connections[name].dispose(): KeyError, caught, when the entry has
\* gone since the check
RemoveDispose(t) ==
    /\ tasks[t].pc = "dispose"
    /\ LET engine == connections[tasks[t].name] IN
       IF engine = NoHandle
       THEN /\ Step(t, Done(t, "False"))
            /\ UNCHANGED disposed
       ELSE /\ disposed' = disposed \cup {engine}
            /\ Step(t, [tasks[t] EXCEPT !.pc = "del_connection"])
    /\ UNCHANGED <<connections, adapters, nHandles, added, db, last>>

\* del self.connections[name]
RemoveDelConnection(t) ==
    /\ tasks[t].pc = "del_connection"
    /\ IF connections[tasks[t].name] = NoHandle
       THEN /\ Step(t, Done(t, "False"))
            /\ UNCHANGED <<connections, added>>
       ELSE /\ connections' = [connections EXCEPT ![tasks[t].name] = NoHandle]
            /\ added' = added \ {tasks[t].name}
            /\ Step(t, [tasks[t] EXCEPT !.pc = "del_adapter"])
    /\ UNCHANGED <<adapters, nHandles, disposed, db, last>>

\* if name in self.adapters: del self.adapters[name]; return True
RemoveDelAdapter(t) ==
    /\ tasks[t].pc = "del_adapter"
    /\ adapters' = [adapters EXCEPT ![tasks[t].name] = NoAdapter]
    /\ Step(t, Done(t, "True"))
    /\ UNCHANGED <<connections, nHandles, disposed, added, db, last>>

\* one turn of "for name, engine in self.connections.items()": the iterator
\* raises RuntimeError when the dictionary has changed size, and the for
\* statement is outside the try block; otherwise the next engine is
\* disposed, or the loop ends
DisposeNext(t) ==
    /\ tasks[t].pc = "next"
    /\ LET rest == {i \in 1..Len(NameOrder) :
                      i > tasks[t].iter /\ connections[NameOrder[i]] # NoHandle}
       IN IF Cardinality(ConnNames(connections)) # tasks[t].used
          THEN /\ Step(t, [Done(t, "RuntimeError") EXCEPT !.raised = TRUE])
               /\ UNCHANGED disposed
          ELSE IF rest = {}
          THEN /\ Step(t, [tasks[t] EXCEPT !.pc = "clear_connections"])
               /\ UNCHANGED disposed
          ELSE LET i == CHOOSE x \in rest : \A y \in rest : x <= y IN
               /\ disposed' = disposed \cup {connections[NameOrder[i]]}
               /\ Step(t, [tasks[t] EXCEPT !.iter = i])
    /\ UNCHANGED <<connections, adapters, nHandles, added, db, last>>

\* self.connections.clear()
DisposeClearConnections(t) ==
    /\ tasks[t].pc = "clear_connections"
    /\ connections' = [n \in Names |-> NoHandle]
    /\ added' = {}
    /\ Step(t, [tasks[t] EXCEPT !.pc = "clear_adapters"])
    /\ UNCHANGED <<adapters, nHandles, disposed, db, last>>

\* self.adapters.clear(); return
DisposeClearAdapters(t) ==
    /\ tasks[t].pc = "clear_adapters"
    /\ adapters' = [n \in Names |-> NoAdapter]
    /\ Step(t, [Done(t, "None") EXCEPT !.emptyAtReturn = (ConnNames(connections) = {})])
    /\ UNCHANGED <<connections, nHandles, disposed, added, db, last>>

\* engine = self.connection_manager.get_connection(name)
LookupConnection(t) ==
    /\ tasks[t].pc = "get_connection"
    /\ Step(t, IF connections[tasks[t].name] = NoHandle
               THEN Done(t, "None")
               ELSE [tasks[t] EXCEPT !.gotHandle = connections[tasks[t].name],
                                     !.pc = "get_adapter"])
    /\ UNCHANGED <<connections, adapters, nHandles, disposed, added, db, last>>

\* adapter = self.connection_manager.get_adapter(name)
LookupAdapter(t) ==
    /\ tasks[t].pc = "get_adapter"
    /\ Step(t, [Done(t, IF adapters[tasks[t].name] = NoAdapter THEN "None" ELSE "rows")
                   EXCEPT !.gotAdapter = adapters[tasks[t].name]])
    /\ UNCHANGED <<connections, adapters, nHandles, disposed, added, db, last>>

InitConc ==
    /\ connections = [n \in Names |-> NoHandle]
    /\ adapters = [n \in Names |-> NoAdapter]
    /\ nHandles = 0
    /\ disposed = {}
    /\ added = {}
    /\ db = NoTable
    /\ last = NoCall
    /\ tasks = [t \in Threads |-> Idle]
    /\ config_data = <<>>
    /\ lifecycle = NoLifecycle

NextConc ==
    \E t \in Threads :
        \/ Start(t)
        \/ AddCreateEngine(t) \/ AddStoreConnection(t) \/ AddStoreAdapter(t)
        \/ RemoveCheck(t) \/ RemoveDispose(t) \/ RemoveDelConnection(t)
        \/ RemoveDelAdapter(t)
        \/ DisposeNext(t) \/ DisposeClearConnections(t) \/ DisposeClearAdapters(t)
        \/ LookupConnection(t) \/ LookupAdapter(t)

SpecConc == InitConc /\ [][NextConc]_vars

\* ------------------------------------------------ asynchronous batch insert
\* AsyncDataManager.batch_insert_data creates one insert_data coroutine per
\* record and awaits asyncio.gather(*tasks, return_exceptions=True).  Each
\* coroutine runs the synchronous insert_data in the executor's thread pool,
\* so the inserts finish in any order; rank is the order in which they did.
NDone(ts) == Cardinality({i \in 1..Len(ts) : ts[i].pc = "done"})

gather_as_completed(ts) ==
    [r \in 1..Len(ts) |-> ts[CHOOSE i \in 1..Len(ts) : ts[i].rank = r].result]

\* the list gather returns: the results in the order of the tasks it was
\* given
gather(ts) == [i \in 1..Len(ts) |-> ts[i].result]

\* the for loop over enumerate(results)
RECURSIVE async_batch_loop(_, _, _)
async_batch_loop(results, i, acc) ==
    IF i > Len(results) THEN acc
    ELSE async_batch_loop(results, i + 1,
                          [acc EXCEPT
                             !.success_count = IF results[i] = "True" THEN @ + 1 ELSE @,
                             !.failure_count = IF results[i] = "True" THEN @ ELSE @ + 1,
                             !.failed_records = IF results[i] = "True" THEN @
                                                ELSE Append(@, i - 1)])

\* the tasks list is built and handed to gather
AsyncDispatch ==
    /\ tasks = <<>>
    /\ \E name \in Names :
        \E n \in For(name, 1..MaxBatch, {1}) :
          \E data_list \in [1..n -> Records],
             faults \in For(name, FaultLists(n), {[i \in 1..n |-> "none"]}) :
            /\ tasks' = [i \in 1..n |->
                        [name |-> name, id |-> data_list[i].id, val |-> data_list[i].val,
                         fault |-> faults[i], pc |-> "pending", result |-> "", rank |-> 0]]
            /\ last' = [Call("async_batch_insert_data", name) EXCEPT !.ret = "pending"]
    /\ UNCHANGED <<connections, adapters, nHandles, disposed, added, db>>
    /\ UNCHANGED aside

\* one task runs insert_data in its thread; an exception would become
\* False in the coroutine's except clause
AsyncInsert ==
    \E i \in 1..Len(tasks) :
        /\ tasks[i].pc = "pending"
        /\ LET r == insert_data(db, tasks[i].name, tasks[i].id, tasks[i].val,
                                tasks[i].fault)
           IN /\ db' = r.db
              /\ tasks' = [tasks EXCEPT ![i].pc = "done", ![i].result = r.call.ret,
                                        ![i].rank = NDone(tasks) + 1]
        /\ UNCHANGED <<connections, adapters, nHandles, disposed, added, last>>
        /\ UNCHANGED aside

\* gather returns when every task has finished; the counts are made from
\* its result list
AsyncGather ==
    /\ tasks # <<>>
    /\ \A i \in 1..Len(tasks) : tasks[i].pc = "done"
    /\ last' = [async_batch_loop(gather(tasks), 1,
                                  [Call("async_batch_insert_data", tasks[1].name)
                                      EXCEPT !.ret = "dict"])
                   EXCEPT !.data = [i \in 1..Len(tasks) |->
                                      [id |-> tasks[i].id, val |-> tasks[i].val]],
                          !.nExecuted = NDone(tasks),
                          !.entryFailed = {i - 1 : i \in {j \in 1..Len(tasks) :
                                                            tasks[j].result # "True"}},
                          !.attemptLog = [r \in 1..Len(tasks) |->
                                            (CHOOSE i \in 1..Len(tasks) :
                                                tasks[i].rank = r) - 1]]
    /\ tasks' = <<>>
    /\ UNCHANGED <<connections, adapters, nHandles, disposed, added, db>>
    /\ UNCHANGED aside

InitAsync ==
    /\ \E t \in ValidTypes :
          /\ connections = [n \in Names |-> IF n = "a" THEN 1 ELSE NoHandle]
          /\ adapters = [n \in Names |-> IF n = "a" THEN t ELSE NoAdapter]
    /\ nHandles = 1
    /\ disposed = {}
    /\ added = {"a"}
    /\ db \in {NoTable} \cup Tables
    /\ last = [NoCall EXCEPT !.op = "add", !.name = "a", !.ret = "True", !.created = 1]
    /\ tasks = <<>>
    /\ config_data = <<>>
    /\ lifecycle = NoLifecycle

NextAsync == AsyncDispatch \/ AsyncInsert \/ AsyncGather

SpecAsync == InitAsync /\ [][NextAsync]_vars

\* ------------------------------------------------------------ the SQL text
\* A value is an integer or a string.  A column name is the list of its
\* words, which the name joins with "_": "cond_x" is <<"cond", "x">>.  A
\* dict is the list of its items in insertion order.  The SQL text is the
\* list of its tokens: keywords, identifiers (q: the quoting), placeholders
\* (:name) and literals (a value formatted into the text).
IntVal(n) == [s |-> "", n |-> n]
StrVal(s) == [s |-> s, n |-> 0]
DateStrings == {"2024-01-01"}
DateTimeStrings == {"2024-01-01 10:00:00"}

\* ^\d{4}-\d{2}-\d{2}( \d{2}:\d{2}:\d{2})?$
is_datetime_string(v) == v.s \in DateStrings \cup DateTimeStrings

\* a date string without a time part gets " 00:00:00" appended
format_datetime_for_oracle(v) ==
    IF v.s \in DateStrings THEN StrVal(v.s \o " 00:00:00") ELSE v

Kw(w) == [t |-> "kw", q |-> w, w |-> <<>>, v |-> IntVal(0)]
Id(q, key) == [t |-> "id", q |-> q, w |-> key, v |-> IntVal(0)]
Ph(name) == [t |-> "ph", q |-> ":", w |-> name, v |-> IntVal(0)]
Lit(v) == [t |-> "lit", q |-> "", w |-> <<>>, v |-> v]

dict_keys(m) == {m[i].key : i \in 1..Len(m)}
dict_get(m, k) == m[CHOOSE i \in 1..Len(m) : m[i].key = k].value
dict_set(m, k, v) ==
    IF k \in dict_keys(m)
    THEN [i \in 1..Len(m) |-> IF m[i].key = k THEN [key |-> k, value |-> v] ELSE m[i]]
    ELSE Append(m, [key |-> k, value |-> v])
dict_pop(m, k) == SelectSeq(m, LAMBDA e : e.key # k)

RECURSIVE dict_update(_, _)
dict_update(m, other) ==
    IF other = <<>> THEN m
    ELSE dict_update(dict_set(m, Head(other).key, Head(other).value), Tail(other))

RECURSIVE Join(_, _)
Join(sep, parts) ==
    IF parts = <<>> THEN <<>>
    ELSE IF Len(parts) = 1 THEN parts[1]
    ELSE parts[1] \o <<sep>> \o Join(sep, Tail(parts))

\* the quoting each adapter puts around a column name
Quote(adapter, kind) ==
    IF adapter = "mysql" THEN "backtick"
    ELSE IF adapter = "sqlserver" /\ kind \in {"select", "count", "page", "insert"}
    THEN "bracket"
    ELSE ""

\* if conditions: ... query += " WHERE " + " AND ".join(condition_strs)
\* with the placeholder f":{prefix}{key}"
where_text(q, conditions, prefix) ==
    IF conditions = <<>> THEN <<>>
    ELSE <<Kw("WHERE")>> \o
         Join(Kw("AND"), [i \in 1..Len(conditions) |->
                            <<Id(q, conditions[i].key), Kw("="),
                              Ph(prefix \o conditions[i].key)>>])

\* params[f"{prefix}{key}"] = value for each item
RECURSIVE where_params(_, _, _)
where_params(params, conditions, prefix) ==
    IF conditions = <<>> THEN params
    ELSE where_params(dict_set(params, prefix \o Head(conditions).key,
                               Head(conditions).value),
                      Tail(conditions), prefix)

get_select_query_text(adapter, conditions, limit) ==
    LET where == where_text(Quote(adapter, "select"), conditions, <<>>)
        n == Lit(IntVal(limit))
    IN [sql |-> IF limit = 0 THEN <<Kw("SELECT * FROM"), Kw("table")>> \o where
                ELSE IF adapter = "sqlserver"
                THEN <<Kw("SELECT TOP"), n, Kw("* FROM"), Kw("table")>> \o where
                ELSE IF adapter = "oracle"
                THEN <<Kw("SELECT * FROM"), Kw("table")>> \o where
                     \o <<Kw("FETCH FIRST"), n, Kw("ROWS ONLY")>>
                ELSE <<Kw("SELECT * FROM"), Kw("table")>> \o where \o <<Kw("LIMIT"), n>>,
        params |-> where_params(<<>>, conditions, <<>>)]

get_count_query_text(adapter, conditions) ==
    [sql |-> <<Kw("SELECT COUNT(*) FROM"), Kw("table")>>
             \o where_text(Quote(adapter, "count"), conditions, <<>>),
     params |-> where_params(<<>>, conditions, <<>>)]

\* limit and offset are popped from the conditions and formatted into the
\* text (both are always present in what select_data_with_pagination
\* passes); the values here are integers, so offset + limit is a sum
get_paginated_select_query_text(adapter, paginated_conditions) ==
    LET limit == dict_get(paginated_conditions, <<"limit">>)
        offset == dict_get(paginated_conditions, <<"offset">>)
        conditions == dict_pop(dict_pop(paginated_conditions, <<"limit">>),
                               <<"offset">>)
        where == where_text(Quote(adapter, "page"), conditions, <<>>)
    IN [sql |-> IF adapter = "sqlserver"
                THEN <<Kw("SELECT * FROM (SELECT *, ROW_NUMBER() OVER (ORDER BY (SELECT NULL)) AS rn FROM"),
                       Kw("table")>> \o where
                     \o <<Kw(") AS numbered WHERE"), Kw("rn >"), Lit(offset),
                          Kw("AND rn <="), Lit(IntVal(offset.n + limit.n))>>
                ELSE IF adapter = "oracle"
                THEN <<Kw("SELECT * FROM"), Kw("table")>> \o where
                     \o <<Kw("FETCH FIRST"), Lit(limit), Kw("ROWS ONLY"),
                          Kw("OFFSET"), Lit(offset), Kw("ROWS")>>
                ELSE <<Kw("SELECT * FROM"), Kw("table")>> \o where
                     \o <<Kw("LIMIT"), Lit(limit), Kw("OFFSET"), Lit(offset)>>,
        params |-> where_params(<<>>, conditions, <<>>)]

get_insert_query_text(adapter, data) ==
    LET q == Quote(adapter, "insert") IN
    [sql |-> <<Kw("INSERT INTO"), Kw("table"), Kw("(")>>
             \o Join(Kw(","), [i \in 1..Len(data) |-> <<Id(q, data[i].key)>>])
             \o <<Kw(") VALUES (")>>
             \o Join(Kw(","), [i \in 1..Len(data) |-> <<Ph(data[i].key)>>])
             \o <<Kw(")")>>,
     params |-> data]

\* for key, value in data.items(): f"{key} = :{key}_{len(params)}"
RECURSIVE set_loop(_, _, _, _)
set_loop(q, data, set_strs, params) ==
    IF data = <<>> THEN [set_strs |-> set_strs, params |-> params]
    ELSE LET key == Head(data).key
             name == key \o <<ToString(Len(params))>>
         IN set_loop(q, Tail(data),
                     Append(set_strs, <<Id(q, key), Kw("="), Ph(name)>>),
                     dict_set(params, name, Head(data).value))

get_update_query_text(adapter, data, conditions) ==
    LET q == Quote(adapter, "update")
        set == set_loop(q, data, <<>>, <<>>)
    IN [sql |-> <<Kw("UPDATE"), Kw("table"), Kw("SET")>>
                \o Join(Kw(","), set.set_strs)
                \o where_text(q, conditions, <<"cond">>),
        params |-> where_params(set.params, conditions, <<"cond">>)]

get_delete_query_text(adapter, conditions) ==
    [sql |-> <<Kw("DELETE FROM"), Kw("table")>>
             \o where_text(Quote(adapter, "delete"), conditions, <<>>),
     params |-> where_params(<<>>, conditions, <<>>)]

\* ----- the text each handler hands to the driver
Query(call, q) == [db |-> db, call |-> [call EXCEPT !.resolved = TRUE, !.sql = q.sql,
                                                   !.params = q.params]]
NoQuery(call) == [db |-> db, call |-> call]

select_data_text(name, conditions, limit) ==
    LET call == [Call("select_data", name) EXCEPT !.conditions = conditions,
                                                  !.limit = limit]
    IN IF ~Resolves(name) THEN NoQuery(call)
       ELSE Query(call, get_select_query_text(get_adapter(name), conditions, limit))

select_data_with_pagination_text(name, page, page_size, conditions) ==
    LET call == [Call("select_data_with_pagination", name)
                    EXCEPT !.conditions = conditions, !.page = page,
                           !.page_size = page_size]
        count == get_count_query_text(get_adapter(name), conditions)
        offset == (page - 1) * page_size
        paginated_conditions ==
            dict_update(<<[key |-> <<"limit">>, value |-> IntVal(page_size)],
                          [key |-> <<"offset">>, value |-> IntVal(offset)]>>,
                        conditions)
    IN IF ~Resolves(name) THEN NoQuery(call)
       ELSE Query([call EXCEPT !.count_sql = count.sql,
                               !.count_params = count.params],
                  get_paginated_select_query_text(get_adapter(name),
                                                  paginated_conditions))

\* an insert that sends the adapter's statement on every engine
insert_data_text_no_rewrite(name, data) ==
    LET call == [Call("insert_data", name) EXCEPT !.data = data]
    IN IF ~Resolves(name) THEN NoQuery(call)
       ELSE Query(call, get_insert_query_text(get_adapter(name), data))

\* on Oracle the statement is rebuilt with TO_DATE around the placeholder
\* of every value that is a date string
insert_data_text(name, data) ==
    LET call == [Call("insert_data", name) EXCEPT !.data = data]
        q == get_insert_query_text(get_adapter(name), data)
        formatted_values ==
            [i \in 1..Len(data) |->
                IF is_datetime_string(data[i].value)
                THEN IF data[i].value.s \in DateTimeStrings
                     THEN <<Kw("TO_DATE("), Ph(data[i].key),
                            Kw(", 'YYYY-MM-DD HH24:MI:SS')")>>
                     ELSE <<Kw("TO_DATE("), Ph(data[i].key), Kw(", 'YYYY-MM-DD')")>>
                ELSE <<Ph(data[i].key)>>]
    IN IF ~Resolves(name) THEN NoQuery(call)
       ELSE IF /\ get_adapter(name) = "oracle"
               /\ \E i \in 1..Len(data) : is_datetime_string(data[i].value)
       THEN Query(call,
                  [sql |-> <<Kw("INSERT INTO"), Kw("table"), Kw("(")>>
                           \o Join(Kw(","), [i \in 1..Len(data) |->
                                                <<Id("", data[i].key)>>])
                           \o <<Kw(") VALUES (")>>
                           \o Join(Kw(","), formatted_values) \o <<Kw(")")>>,
                   params |-> data])
       ELSE Query(call, q)

update_data_text(name, data, conditions) ==
    LET call == [Call("update_data", name) EXCEPT !.data = data,
                                                  !.conditions = conditions]
    IN IF ~Resolves(name) THEN NoQuery(call)
       ELSE Query(call, get_update_query_text(get_adapter(name), data, conditions))

delete_data_text(name, conditions) ==
    LET call == [Call("delete_data", name) EXCEPT !.conditions = conditions]
    IN IF ~Resolves(name) THEN NoQuery(call)
       ELSE Query(call, get_delete_query_text(get_adapter(name), conditions))

\* ----- requests
CondKeys == {<<"x">>, <<"x", "0">>, <<"limit">>, <<"offset">>}
DataKeys == {<<"x">>, <<"cond", "x">>}
CondValues == {IntVal(1), IntVal(2)}
DataValues == {IntVal(1), IntVal(2), StrVal("2024-01-01"),
               StrVal("2024-01-01 10:00:00")}
PageSizes == {10}
Limits == {0, 10}

\* the dicts of at most MaxCols items with keys from K and values from V
Dicts(K, V) ==
    UNION {{m \in [1..n -> [key : K, value : V]] :
               \A i, j \in 1..n : i # j => m[i].key # m[j].key} : n \in 0..MaxCols}

\* a request: the handler called and its arguments
Request(op, data, conditions, page, limit) ==
    [op |-> op, data |-> data, conditions |-> conditions, page |-> page,
     limit |-> limit]

Requests ==
    LET C == Dicts(CondKeys, CondValues)
        D == Dicts(DataKeys, DataValues) \ {<<>>}
    IN {Request("select_data", <<>>, c, 0, l) : c \in C, l \in Limits}
       \cup {Request("select_data_with_pagination", <<>>, c, pg, 0) : c \in C, pg \in 1..2}
       \cup {Request("insert_data", d, <<>>, 0, 0) : d \in D}
       \cup {Request("update_data", d, c, 0, 0) : d \in D, c \in C}
       \cup {Request("delete_data", <<>>, c, 0, 0) : c \in C}

Requested(op) == last.op = "request" /\ last.kind = op

SelectText ==
    /\ Requested("select_data")
    /\ Returns(select_data_text(last.name, last.conditions, last.limit))

PageText ==
    /\ Requested("select_data_with_pagination")
    /\ \E page_size \in PageSizes :
          Returns(select_data_with_pagination_text(last.name, last.page, page_size,
                                                   last.conditions))

InsertText ==
    /\ Requested("insert_data")
    /\ Returns(insert_data_text(last.name, last.data))

UpdateText ==
    /\ Requested("update_data")
    /\ Returns(update_data_text(last.name, last.data, last.conditions))

DeleteText ==
    /\ Requested("delete_data")
    /\ Returns(delete_data_text(last.name, last.conditions))

\* one registered connection of any type, and one request for it (or a
\* request naming a connection that is not registered)
InitQuery ==
    /\ \E t \in AllAdapters :
          /\ connections = [n \in Names |-> IF n = "a" THEN 1 ELSE NoHandle]
          /\ adapters = [n \in Names |-> IF n = "a" THEN t ELSE NoAdapter]
    /\ nHandles = 1
    /\ disposed = {}
    /\ added = {"a"}
    /\ db = NoTable
    /\ \E name \in Names :
        \E r \in IF name = "a" THEN Requests
                  ELSE {q \in Requests : Len(q.data) + Len(q.conditions) <= 1
                                          /\ q.page <= 1 /\ q.limit = 0} :
          last = [NoCall EXCEPT !.op = "request", !.kind = r.op, !.name = name,
                                !.data = r.data, !.conditions = r.conditions,
                                !.page = r.page, !.limit = r.limit]
    /\ tasks = <<>>
    /\ config_data = <<>>
    /\ lifecycle = NoLifecycle

NextQuery == SelectText \/ PageText \/ InsertText \/ UpdateText \/ DeleteText

SpecQuery == InitQuery /\ [][NextQuery]_vars

\* ------------------------------------------------- rows returned by reads
\* a value of a fetched row: k is its Python type, date is <<year, month,
\* day>>, time is <<hour, minute, second>>
DateTimeValue(date, time) == [k |-> "datetime", date |-> date, time |-> time, s |-> "", n |-> 0]
DateValue(date) == [k |-> "date", date |-> date, time |-> <<>>, s |-> "", n |-> 0]
TimeValue(time) == [k |-> "time", date |-> <<>>, time |-> time, s |-> "", n |-> 0]
StrValue(s) == [k |-> "str", date |-> <<>>, time |-> <<>>, s |-> s, n |-> 0]
IntValue(n) == [k |-> "int", date |-> <<>>, time |-> <<>>, s |-> "", n |-> n]
NoneValue == [k |-> "NoneType", date |-> <<>>, time |-> <<>>, s |-> "", n |-> 0]

\* %Y, %m, %d, %H, %M, %S: decimal, zero-padded to the width
RECURSIVE ZeroPadded(_, _)
ZeroPadded(s, width) == IF Len(s) >= width THEN s ELSE ZeroPadded("0" \o s, width)

\* value.strftime('%Y-%m-%d %H:%M:%S'): a date has no time fields (zeros),
\* a time has no date fields (1900-01-01)
strftime(value) ==
    LET date == IF value.k = "time" THEN <<1900, 1, 1>> ELSE value.date
        time == IF value.k = "date" THEN <<0, 0, 0>> ELSE value.time
    IN ZeroPadded(ToString(date[1]), 4) \o "-" \o ZeroPadded(ToString(date[2]), 2)
       \o "-" \o ZeroPadded(ToString(date[3]), 2) \o " "
       \o ZeroPadded(ToString(time[1]), 2) \o ":" \o ZeroPadded(ToString(time[2]), 2)
       \o ":" \o ZeroPadded(ToString(time[3]), 2)

\* hasattr(value, 'strftime')
has_strftime(value) == value.k \in {"datetime", "date", "time"}

\* rows returned as they were fetched
processed_rows_unconverted(rows) == rows

processed_rows(rows) ==
    [r \in 1..Len(rows) |->
        [i \in 1..Len(rows[r]) |->
            IF has_strftime(rows[r][i]) THEN StrValue(strftime(rows[r][i]))
            ELSE rows[r][i]]]

\* select_data on a result of the given rows
select_data_rows(name, fetched, fault) ==
    LET call == [Call("select_data", name) EXCEPT !.fetched = fetched, !.kind = fault]
    IN IF ~Resolves(name) THEN [db |-> db, call |-> [call EXCEPT !.ret = "None"]]
       ELSE IF fault = "execute"
       THEN [db |-> db, call |-> [call EXCEPT !.resolved = TRUE, !.ret = "None"]]
       ELSE [db |-> db, call |-> [call EXCEPT !.resolved = TRUE, !.ret = "rows",
                                              !.rows = processed_rows(fetched)]]

\* select_data_with_pagination on a page of the given rows
select_data_with_pagination_rows(name, page, page_size, fetched, fault) ==
    LET call == [Call("select_data_with_pagination", name)
                    EXCEPT !.fetched = fetched, !.kind = fault, !.page = page,
                           !.page_size = page_size]
    IN IF ~Resolves(name) THEN [db |-> db, call |-> [call EXCEPT !.ret = "None"]]
       ELSE IF fault = "execute" \/ page_size = 0
       THEN [db |-> db, call |-> [call EXCEPT !.resolved = TRUE, !.ret = "None"]]
       ELSE [db |-> db, call |-> [call EXCEPT !.resolved = TRUE, !.ret = "page",
                                              !.rows = processed_rows(fetched)]]

FetchedValues ==
    {DateTimeValue(<<2024, 1, 15>>, <<10, 30, 5>>), DateValue(<<2024, 1, 15>>),
     TimeValue(<<9, 5, 0>>), StrValue("2024-01-15"), IntValue(7), NoneValue}

\* results of at most MaxBatch rows of two columns
FetchedRows ==
    UNION {[1..n -> [1..2 -> FetchedValues]] : n \in 0..MaxBatch}

SelectRows ==
    /\ Requested("select_data")
    /\ \E fault \in ReadFaults :
          Returns(select_data_rows(last.name, last.fetched, fault))

PageRows ==
    /\ Requested("select_data_with_pagination")
    /\ \E page_size \in {0, 10}, fault \in ReadFaults :
          Returns(select_data_with_pagination_rows(last.name, last.page, page_size,
                                                   last.fetched, fault))

InitRows ==
    /\ connections = [n \in Names |-> IF n = "a" THEN 1 ELSE NoHandle]
    /\ adapters = [n \in Names |-> IF n = "a" THEN "postgresql" ELSE NoAdapter]
    /\ nHandles = 1
    /\ disposed = {}
    /\ added = {"a"}
    /\ db = NoTable
    /\ \E name \in Names, op \in {"select_data", "select_data_with_pagination"} :
        \E fetched \in IF name = "a" THEN FetchedRows ELSE {<<>>} :
          last = [NoCall EXCEPT !.op = "request", !.kind = op, !.name = name,
                                !.fetched = fetched, !.page = 1]
    /\ tasks = <<>>
    /\ config_data = <<>>
    /\ lifecycle = NoLifecycle

NextRows == SelectRows \/ PageRows

SpecRows == InitRows /\ [][NextRows]_vars

\* ------------------------------------------------ the configuration manager
\* a connection configuration maps the keys name, type, host, port,
\* username, password, database and enabled to values; Missing: the key is
\* not in the mapping
Missing == [k |-> "missing", date |-> <<>>, time |-> <<>>, s |-> "", n |-> 0]
BoolValue(b) == [k |-> "bool", date |-> <<>>, time |-> <<>>, s |-> "",
                 n |-> IF b THEN 1 ELSE 0]
Fields == {"name", "type", "host", "port", "username", "password", "database",
           "enabled"}

\* field in conn
Has(conn, field) == conn[field].k # "missing"

valid_types == {"mysql", "oracle", "postgresql", "sqlite", "sqlserver"}

\* isinstance(value, int): a bool is an int, True is 1 and False is 0
isinstance_int(value) == value.k \in {"int", "bool"}

\* the check of enabled accepts any descriptor
validate_enabled_unchecked(conn) == "ok"

validate_enabled(conn) ==
    IF Has(conn, "enabled") /\ conn.enabled.k # "bool"
    THEN "ConfigValidationError" ELSE "ok"

\* _validate_connection_config: "ok", or the exception it raises.
\* conn["type"].lower() is an AttributeError for a type that is no string.
validate_connection_config(conn) ==
    IF ~Has(conn, "name") \/ ~Has(conn, "type") THEN "ConfigValidationError"
    ELSE IF conn.type.k # "str" THEN "AttributeError"
    ELSE IF Lower(conn.type.s) \notin valid_types THEN "ConfigValidationError"
    ELSE IF Lower(conn.type.s) # "sqlite"
    THEN IF \E field \in {"host", "port", "username", "password", "database"} :
                ~Has(conn, field)
         THEN "ConfigValidationError"
         ELSE IF ~isinstance_int(conn.port) \/ ~(1 <= conn.port.n /\ conn.port.n <= 65535)
         THEN "ConfigValidationError"
         ELSE validate_enabled(conn)
    ELSE IF ~Has(conn, "database") THEN "ConfigValidationError"
    ELSE validate_enabled(conn)

\* conn.get("enabled", False)
get_enabled(conn) == Has(conn, "enabled") /\ conn.enabled.n # 0

get_enabled_connections(config) == SelectSeq(config, get_enabled)

\* what initialize_from_config reads of a configuration: complete says
\* that every key of connection_params is there
conn_config(conn) ==
    [name |-> conn.name.s, type |-> conn.type.s,
     enabled |-> IF get_enabled(conn) THEN "true" ELSE "false",
     complete |-> \A field \in {"type", "host", "port", "username", "password",
                                "database"} : Has(conn, field)]

HasName(config, name) == \E i \in 1..Len(config) : config[i].name = name
FirstNamed(config, name) ==
    CHOOSE i \in 1..Len(config) :
        config[i].name = name /\ \A j \in 1..(i - 1) : config[j].name # name

\* DatabaseConfigManager.add_connection
config_add_connection(config, connection_config) ==
    LET v == validate_connection_config(connection_config) IN
    IF v = "AttributeError" THEN [config |-> config, ret |-> "AttributeError"]
    ELSE IF v # "ok" THEN [config |-> config, ret |-> "False"]
    ELSE IF HasName(config, connection_config.name)
    THEN [config |-> config, ret |-> "False"]
    ELSE [config |-> Append(config, connection_config), ret |-> "True"]

\* DatabaseConfigManager.update_connection: the entry found under name is
\* replaced by connection_config, whatever name that carries
config_update_connection(config, name, connection_config) ==
    LET v == validate_connection_config(connection_config) IN
    IF v = "AttributeError" THEN [config |-> config, ret |-> "AttributeError"]
    ELSE IF v # "ok" THEN [config |-> config, ret |-> "False"]
    ELSE IF ~HasName(config, StrValue(name)) THEN [config |-> config, ret |-> "False"]
    ELSE [config |-> [config EXCEPT ![FirstNamed(config, StrValue(name))] =
                                        connection_config],
          ret |-> "True"]

\* DatabaseConfigManager.remove_connection
config_remove_connection(config, name) ==
    IF ~HasName(config, StrValue(name)) THEN [config |-> config, ret |-> "False"]
    ELSE LET i == FirstNamed(config, StrValue(name))
         IN [config |-> SubSeq(config, 1, i - 1) \o SubSeq(config, i + 1, Len(config)),
             ret |-> "True"]

\* enable_connection (flag TRUE) and disable_connection (flag FALSE)
set_enabled(config, name, flag) ==
    IF ~HasName(config, StrValue(name)) THEN [config |-> config, ret |-> "False"]
    ELSE [config |-> [config EXCEPT ![FirstNamed(config, StrValue(name))].enabled =
                                        BoolValue(flag)],
          ret |-> "True"]

\* the configurations written in the tests of this model
Full(name, type) ==
    [name |-> StrValue(name), type |-> StrValue(type), host |-> StrValue("h"),
     port |-> IntValue(3306), username |-> StrValue("u"), password |-> StrValue("p"),
     database |-> StrValue("d"), enabled |-> BoolValue(TRUE)]
Minimal(name) ==
    [Full(name, "sqlite") EXCEPT !.host = Missing, !.port = Missing,
                                 !.username = Missing, !.password = Missing]

\* the values a key is given besides the one of Full and Minimal
Alternatives(field) ==
    {Missing} \cup
    (CASE field = "port" -> {IntValue(0), IntValue(1), IntValue(65535), IntValue(65536),
                             StrValue("3306"), BoolValue(TRUE), BoolValue(FALSE)}
       [] field = "enabled" -> {BoolValue(FALSE), StrValue("true"), IntValue(1)}
       [] field = "type" -> {IntValue(5)}
       [] OTHER -> {})

BaseConfigs ==
    {Full(NameOrder[1], type) : type \in {"mysql", "MySQL", "oracle", "sqlite", "mongodb"}}
    \cup {Minimal(NameOrder[1])}

TestConfigs ==
    BaseConfigs \cup {[base EXCEPT ![field] = value] :
                         base \in BaseConfigs, field \in Fields,
                         value \in UNION {Alternatives(f) : f \in Fields}}

\* ----- validation
Validate ==
    /\ Requested("validate")
    /\ last' = [last EXCEPT !.op = "validate",
                            !.ret = validate_connection_config(last.descs[1]),
                            !.raised = validate_connection_config(last.descs[1]) # "ok"]
    /\ UNCHANGED <<connections, adapters, nHandles, disposed, added, db, tasks>>
    /\ UNCHANGED aside

InitValidate ==
    /\ connections = [n \in Names |-> NoHandle]
    /\ adapters = [n \in Names |-> NoAdapter]
    /\ nHandles = 0
    /\ disposed = {}
    /\ added = {}
    /\ db = NoTable
    /\ \E conn \in TestConfigs :
          last = [NoCall EXCEPT !.op = "request", !.kind = "validate",
                                !.descs = <<conn>>]
    /\ tasks = <<>>
    /\ config_data = <<>>
    /\ lifecycle = NoLifecycle

NextValidate == Validate

SpecValidate == InitValidate /\ [][NextValidate]_vars

\* ----- configuration changes and reloads
\* the second name is written disabled; enable_connection turns it on
ConfigInputs ==
    {[c EXCEPT !.enabled = BoolValue(c.name.s = NameOrder[1])] :
        c \in {Full(n, "mysql") : n \in Names} \cup {Minimal(n) : n \in Names}}
    \cup {[Full(NameOrder[1], "mysql") EXCEPT !.type = Missing]}

\* the registry is not touched by a change of the configuration
ConfigAdd ==
    \E connection_config \in ConfigInputs :
        /\ Len(config_data) < MaxDescs
        /\ LET r == config_add_connection(config_data, connection_config) IN
           /\ config_data' = r.config
           /\ last' = [NoCall EXCEPT !.op = "config_add", !.ret = r.ret,
                                     !.name = connection_config.name.s]
        /\ UNCHANGED <<connections, adapters, nHandles, disposed, added, db, tasks,
                       lifecycle>>

\* kind is the name carried by the new configuration
ConfigUpdate ==
    \E name \in Names, connection_config \in ConfigInputs :
        LET r == config_update_connection(config_data, name, connection_config) IN
        /\ config_data' = r.config
        /\ last' = [NoCall EXCEPT !.op = "config_update", !.name = name, !.ret = r.ret,
                                  !.kind = connection_config.name.s]
        /\ UNCHANGED <<connections, adapters, nHandles, disposed, added, db, tasks,
                       lifecycle>>

ConfigRemove ==
    \E name \in Names :
        LET r == config_remove_connection(config_data, name) IN
        /\ config_data' = r.config
        /\ last' = [NoCall EXCEPT !.op = "config_remove", !.name = name, !.ret = r.ret]
        /\ UNCHANGED <<connections, adapters, nHandles, disposed, added, db, tasks,
                       lifecycle>>

ConfigEnable ==
    \E name \in Names :
        LET r == set_enabled(config_data, name, TRUE) IN
        /\ config_data' = r.config
        /\ last' = [NoCall EXCEPT !.op = "enable", !.name = name, !.ret = r.ret]
        /\ UNCHANGED <<connections, adapters, nHandles, disposed, added, db, tasks,
                       lifecycle>>

ConfigDisable ==
    \E name \in Names :
        LET r == set_enabled(config_data, name, FALSE) IN
        /\ config_data' = r.config
        /\ last' = [NoCall EXCEPT !.op = "disable", !.name = name, !.ret = r.ret]
        /\ UNCHANGED <<connections, adapters, nHandles, disposed, added, db, tasks,
                       lifecycle>>

\* reload_configurations: the saved configuration is loaded and its enabled
\* entries are handed to initialize_from_config; failing is the entry whose
\* test query raises
Reload ==
    LET enabled == get_enabled_connections(config_data)
        descs == [i \in 1..Len(enabled) |-> conn_config(enabled[i])]
    IN /\ nHandles + Len(descs) <= MaxHandles
       /\ \E failing \in 0..Len(descs) :
            LET faults == [i \in 1..Len(descs) |->
                             IF i = failing THEN "test_query" ELSE "none"]
                r == initialize_from_config(Registry, descs, faults)
            IN /\ SetRegistry(r.reg)
               /\ added' = added \cup {r.attempts[i].name :
                                         i \in {j \in 1..Len(r.attempts) : r.attempts[j].ok}}
               /\ last' = [NoCall EXCEPT !.op = "reload", !.ret = "map",
                                         !.descs = enabled, !.attempts = r.attempts,
                                         !.results = r.results,
                                         !.kind = IF failing = 0 THEN "none"
                                                  ELSE "test_query",
                                         !.failedAt = failing]
       /\ UNCHANGED db

NextConfig ==
    \/ ConfigAdd \/ ConfigUpdate \/ ConfigRemove \/ ConfigEnable \/ ConfigDisable
    \/ Reload

SpecConfig == Init /\ [][NextConfig]_vars

\* --------------------------------------------------------- main and shutdown
\* main() by its steps.  pc is the position of the main thread: "setup",
\* "wait" (the loop on should_stop.wait(0.1)), "join" (the two joins, each
\* with a timeout), "cleanup" (lifecycle_manager.cleanup() inside
\* shutdown_handler, i is the callback it is at), "dispose" (the call of
\* cleanup_database_connections that follows it), "closing" (asyncio.run
\* closes its loop), "returned".  The server thread is a daemon thread that
\* main never stops: a join that times out leaves it serving requests.
\* cleanup_callbacks holds "cleanup_database_connections" or, for a callback
\* registered by other code, "returns" or "raises".

\* add_cleanup_callback, the signal handlers, the two daemon threads
MainSetup ==
    /\ lifecycle.pc = "setup"
    /\ lifecycle' = [lifecycle EXCEPT
                        !.cleanup_callbacks = Append(@, "cleanup_database_connections"),
                        !.server = "running", !.pc = "wait"]
    /\ UNCHANGED <<connections, adapters, nHandles, disposed, added, db, last, tasks,
                   config_data>>

\* the server thread serves an add_connection call
ServerAdd ==
    \E name \in Names :
        /\ lifecycle.pc \in {"wait", "join", "cleanup", "dispose", "closing"}
        /\ lifecycle.server = "running"
        /\ nHandles < MaxHandles
        /\ LET r == add_connection(Registry, name, "sqlite", "none") IN
           /\ connections' = r.reg.connections
           /\ adapters' = r.reg.adapters
           /\ nHandles' = r.reg.nHandles
           /\ disposed' = r.reg.disposed
           /\ added' = added \cup {name}
           /\ last' = [NoCall EXCEPT !.op = "add", !.name = name, !.ret = BoolRet(r.ret),
                                     !.created = r.created, !.kind = "none"]
        /\ UNCHANGED <<db, tasks, config_data, lifecycle>>

\* signal_handler on SIGINT or SIGTERM
Signal ==
    /\ lifecycle.pc \in {"wait", "join", "cleanup", "dispose"}
    /\ ~lifecycle.should_stop
    /\ lifecycle' = [lifecycle EXCEPT !.should_stop = TRUE,
                                      !.atStop = StoredHandles(connections)]
    /\ UNCHANGED <<connections, adapters, nHandles, disposed, added, db, last, tasks,
                   config_data>>

\* the client closes stdin
StdinCloses ==
    /\ lifecycle.pc = "wait" /\ lifecycle.stdin = "open"
    /\ lifecycle' = [lifecycle EXCEPT !.stdin = "closed"]
    /\ UNCHANGED <<connections, adapters, nHandles, disposed, added, db, last, tasks,
                   config_data>>

\* stdin_monitor sees sys.stdin.closed
StdinMonitor ==
    /\ lifecycle.pc \in {"wait", "join"} /\ lifecycle.stdin = "closed"
    /\ ~lifecycle.should_stop
    /\ lifecycle' = [lifecycle EXCEPT !.should_stop = TRUE,
                                      !.atStop = StoredHandles(connections)]
    /\ UNCHANGED <<connections, adapters, nHandles, disposed, added, db, last, tasks,
                   config_data>>

\* run_server: mcp.run returns or raises, the finally clause sets the flag
ServerEnds ==
    /\ lifecycle.pc \in {"wait", "join", "cleanup", "dispose", "closing"}
    /\ lifecycle.server = "running"
    /\ lifecycle' = [lifecycle EXCEPT
                        !.server = "ended", !.should_stop = TRUE,
                        !.atStop = IF lifecycle.should_stop THEN @
                                   ELSE StoredHandles(connections)]
    /\ UNCHANGED <<connections, adapters, nHandles, disposed, added, db, last, tasks,
                   config_data>>

\* should_stop.wait(0.1) returns True
MainWait ==
    /\ lifecycle.pc = "wait" /\ lifecycle.should_stop
    /\ lifecycle' = [lifecycle EXCEPT !.pc = "join"]
    /\ UNCHANGED <<connections, adapters, nHandles, disposed, added, db, last, tasks,
                   config_data>>

\* server_thread.join(timeout=2), stdin_thread.join(timeout=1): each
\* returns when its thread has ended or the timeout has passed
MainJoin ==
    /\ lifecycle.pc = "join"
    /\ lifecycle' = [lifecycle EXCEPT !.pc = "cleanup", !.i = 1]
    /\ UNCHANGED <<connections, adapters, nHandles, disposed, added, db, last, tasks,
                   config_data>>

\* cleanup_database_connections: dispose_all_connections inside try/except
cleanup_database_connections(reg, raising) == dispose_all_connections(reg, raising)

\* one turn of the for loop of ServerLifecycleManager.cleanup: a callback
\* that raises is logged by the except clause and the loop goes on
CleanupCallback ==
    /\ lifecycle.pc = "cleanup" /\ lifecycle.i <= Len(lifecycle.cleanup_callbacks)
    /\ LET callback == lifecycle.cleanup_callbacks[lifecycle.i]
           next == [lifecycle EXCEPT
                       !.i = @ + 1,
                       !.ran = Append(@, lifecycle.i)]
       IN IF callback = "cleanup_database_connections"
          THEN \E raising \in SUBSET StoredHandles(connections) :
                 LET r == cleanup_database_connections(Registry, raising) IN
                 /\ connections' = r.reg.connections
                 /\ adapters' = r.reg.adapters
                 /\ disposed' = r.reg.disposed
                 /\ added' = {}
                 /\ lifecycle' = [next EXCEPT !.disposeCalls = Append(@, r.disposeLog)]
          ELSE /\ lifecycle' = next
               /\ UNCHANGED <<connections, adapters, disposed, added>>
    /\ UNCHANGED <<nHandles, db, last, tasks, config_data>>

\* the loop is over: shutdown_handler calls cleanup_database_connections
CleanupDone ==
    /\ lifecycle.pc = "cleanup" /\ lifecycle.i > Len(lifecycle.cleanup_callbacks)
    /\ lifecycle' = [lifecycle EXCEPT !.pc = "dispose"]
    /\ UNCHANGED <<connections, adapters, nHandles, disposed, added, db, last, tasks,
                   config_data>>

CleanupConnections ==
    /\ lifecycle.pc = "dispose"
    /\ \E raising \in SUBSET StoredHandles(connections) :
         LET r == cleanup_database_connections(Registry, raising) IN
         /\ connections' = r.reg.connections
         /\ adapters' = r.reg.adapters
         /\ disposed' = r.reg.disposed
         /\ added' = {}
         /\ lifecycle' = [lifecycle EXCEPT !.pc = "closing",
                                           !.disposeCalls = Append(@, r.disposeLog)]
    /\ UNCHANGED <<nHandles, db, last, tasks, config_data>>

\* asyncio.run has closed its loop and main returns
MainReturns ==
    /\ lifecycle.pc = "closing"
    /\ lifecycle' = [lifecycle EXCEPT !.pc = "returned"]
    /\ UNCHANGED <<connections, adapters, nHandles, disposed, added, db, last, tasks,
                   config_data>>

\* the callbacks other code registered before main() is called
InitLife ==
    /\ connections = [n \in Names |-> NoHandle]
    /\ adapters = [n \in Names |-> NoAdapter]
    /\ nHandles = 0
    /\ disposed = {}
    /\ added = {}
    /\ db = NoTable
    /\ last = NoCall
    /\ tasks = <<>>
    /\ config_data = <<>>
    /\ \E n \in 0..MaxCallbacks :
         \E callbacks \in [1..n -> {"returns", "raises"}] :
            lifecycle = [NoLifecycle EXCEPT !.pc = "setup",
                                            !.cleanup_callbacks = callbacks]

MainStep ==
    MainSetup \/ MainWait \/ MainJoin \/ CleanupCallback \/ CleanupDone
    \/ CleanupConnections \/ MainReturns

NextLife ==
    \/ MainSetup \/ ServerAdd \/ Signal \/ StdinCloses \/ StdinMonitor \/ ServerEnds
    \/ MainWait \/ MainJoin \/ CleanupCallback \/ CleanupDone \/ CleanupConnections
    \/ MainReturns

\* the main thread runs: the wait polls every 0.1 s, both joins have a
\* timeout, a callback returns or raises
SpecLife == InitLife /\ [][NextLife]_vars /\ WF_vars(MainStep)

\* =================================================================== claims
Range(seq) == {seq[i] : i \in 1..Len(seq)}
Count(x, seq) == Cardinality({i \in 1..Len(seq) : seq[i] = x})

TransactionalOps == {"insert_data", "update_data", "delete_data",
                     "create_table", "drop_table", "alter_table"}
ReadOps == {"list_tables", "get_table_structure", "select_data",
            "select_data_with_pagination", "execute_query"}
FailValue(op) == IF op \in ReadOps THEN "None"
                 ELSE IF op \in {"update_data", "delete_data"} THEN "-1"
                 ELSE "False"
Failure(c) == c.ret \in {"False", "-1", "None"}
MutatingCall(c) == c.op \in TransactionalOps \/ (c.op = "execute_query" /\ c.commit)

RECURSIVE InOrder(_, _, _)
InOrder(d, adapter, operations) ==
    IF operations = <<>> THEN d
    ELSE InOrder(Execute(d, get_alter_table_statement(adapter, Head(operations))).db,
                 adapter, Tail(operations))

C2_FailureMeansNoEffect ==
    MutatingCall(last) =>
        /\ Failure(last) => (~last.effect /\ "commit" \notin Range(last.txLog))
        /\ ~Failure(last) => last.txLog = <<"begin", "commit">>

C4_RegistryMapsAgree ==
    /\ ConnNames(connections) = AdapterNames(adapters)
    /\ ConnNames(connections) \subseteq added

\* one entry was removed while another stays registered
C4_Witness ==
    last.op = "remove" /\ last.ret = "True" /\ ConnNames(connections) # {}

\* C5: an add whose adapter resolution, engine creation or test query fails
\* returns False without raising and leaves both maps as they were.
C5_FailedAddChangesNothing ==
    [][(last'.op = "add" /\ (last'.kind # "none" \/ last'.ret = "False")) =>
          /\ last'.ret = "False"
          /\ ~last'.raised
          /\ connections' = connections
          /\ adapters' = adapters]_vars

\* the test query failed for a name that already has an entry
C5_Witness ==
    /\ last.op = "add" /\ last.kind = "test_query" /\ last.ret = "False"
    /\ connections[last.name] # NoHandle

\* C6: the engine created by an add that then failed is disposed when add
\* returns.
C6_FailedAddDisposesEngine ==
    (last.op = "add" /\ last.ret = "False" /\ last.created # NoHandle) =>
        last.created \in disposed

\* C7: remove returns True only with the engine disposed and the name gone
\* from both maps; it returns False with both maps unchanged when the name
\* is absent or dispose() raises.
C7_Remove ==
    [][last'.op = "remove" =>
          LET n == last'.name IN
          /\ last'.ret = "True" =>
                /\ connections[n] # NoHandle
                /\ connections[n] \in disposed'
                /\ connections'[n] = NoHandle
                /\ adapters'[n] = NoAdapter
          /\ (connections[n] = NoHandle \/ last'.kind = "dispose raises") =>
                last'.ret = "False"
          /\ last'.ret = "False" =>
                (connections' = connections /\ adapters' = adapters)]_vars

\* an entry was removed and its engine disposed
C7_Witness ==
    /\ last.op = "remove" /\ last.ret = "True"
    /\ last.disposeLog # <<>> /\ last.disposeLog[1] \in disposed

\* C8: dispose_all_connections calls dispose() once on every stored engine
\* and on no other, whichever of them raise, does not raise, and leaves both
\* maps empty; called again right away it disposes nothing.
C8_DisposeAll ==
    [][last'.op = "disposeAll" =>
          /\ \A h \in 1..nHandles :
                Count(h, last'.disposeLog) =
                    IF h \in StoredHandles(connections) THEN 1 ELSE 0
          /\ ~last'.raised
          /\ ConnNames(connections') = {}
          /\ AdapterNames(adapters') = {}
          /\ last.op = "disposeAll" => last'.disposeLog = <<>>]_vars

\* two engines were stored, dispose() raised for the first, the second was
\* still disposed
C8_Witness ==
    /\ last.op = "disposeAll" /\ Len(last.disposeLog) = 2
    /\ last.disposeLog[1] \notin disposed
    /\ last.disposeLog[2] \in disposed

\* C9: initialize_from_config calls add once, in list order, for exactly the
\* descriptors with enabled true, and its result has exactly their names as
\* keys, False for each one whose add failed.
EnabledIdx(descs) == {i \in 1..Len(descs) : descs[i].enabled = "true"}

C9_InitializeAttemptsEnabled ==
    last.op = "initialize" =>
        LET att == last.attempts IN
        /\ {att[i].idx : i \in 1..Len(att)} = EnabledIdx(last.descs)
        /\ \A i, j \in 1..Len(att) : i < j => att[i].idx < att[j].idx
        /\ DOMAIN last.results = {last.descs[i].name : i \in EnabledIdx(last.descs)}
        /\ \A i \in 1..Len(att) :
              (~att[i].ok /\ \A j \in 1..Len(att) :
                                (j > i => att[j].name # att[i].name))
                  => last.results[att[i].name] = FALSE

\* C10: no schema or data operation raises; with a name the registry does
\* not hold, or when a statement fails, it returns its failure value (None,
\* False or -1); with an unknown name no transaction is begun and the
\* registry stays as it was.
C10_FailureIsAValue ==
    [][last'.op \in (TransactionalOps \cup ReadOps) =>
          /\ ~last'.raised
          /\ ~last'.resolved =>
                /\ last'.ret = FailValue(last'.op)
                /\ last'.txLog = <<>>
                /\ connections' = connections
                /\ adapters' = adapters
                /\ db' = db
          /\ last'.failedAt > 0 => last'.ret = FailValue(last'.op)]_vars

\* an update on a name that is not registered
C10_Witness ==
    last.op = "update_data" /\ ~last.resolved /\ last.ret = "-1" /\ last.name = "b"

BatchOps == {"batch_insert_data", "batch_update_data", "batch_delete_data"}
BatchSize(c) == IF c.op = "batch_delete_data" THEN Len(c.conditions) ELSE Len(c.data)

\* C11: a batch insert, update (lists of equal length) or delete over N
\* entries attempts every entry once, in index order, whatever failed
\* before; success_count + failure_count = N, failed_records has
\* failure_count entries, and they are the indexes of the entries whose
\* single-record call failed, in increasing order.
C11_BatchAttemptsEveryEntry ==
    (last.op \in BatchOps /\ last.ret = "dict") =>
        LET N == BatchSize(last)
            f == last.failed_records
        IN /\ last.attemptLog = [i \in 1..N |-> i - 1]
           /\ last.success_count + last.failure_count = N
           /\ Len(f) = last.failure_count
           /\ Range(f) = last.entryFailed
           /\ \A i, j \in 1..Len(f) : i < j => f[i] < f[j]
           /\ ~Resolves(last.name) => last.failure_count = N

\* the first entry of a batch delete failed and the second was still run
C11_Witness ==
    /\ last.op = "batch_delete_data" /\ BatchSize(last) = 2
    /\ last.failed_records = <<0>> /\ last.success_count = 1

\* C12: after a batch insert in which exactly one record failed, every
\* other record of the batch is in the table.
C12_BatchEntryOwnTransaction ==
    (last.op = "batch_insert_data" /\ last.failure_count = 1) =>
        \A i \in 1..Len(last.data) :
            (i - 1) \notin last.entryFailed =>
                /\ db.exists
                /\ db.rows[last.data[i].id] = last.data[i].val

\* the second record of two failed; the first, committed before it, stays
C12_Witness ==
    /\ last.op = "batch_insert_data" /\ Len(last.data) = 2
    /\ last.failed_records = <<1>> /\ last.effect
    /\ db.rows[last.data[1].id] = last.data[1].val

\* C13: batch_update_data with lists of different lengths raises ValueError
\* before any update: no entry is attempted, no transaction is begun and
\* the table is unchanged.
C13_BatchUpdateArity ==
    [][(last'.op = "batch_update_data" /\ Len(last'.data) # Len(last'.conditions)) =>
          /\ last'.raised /\ last'.ret = ValueError
          /\ last'.attemptLog = <<>>
          /\ last'.txLog = <<>>
          /\ db' = db]_vars

\* two data entries, one conditions entry, on a table that holds a row an
\* update would have changed
C13_Witness ==
    /\ last.op = "batch_update_data" /\ last.raised
    /\ Len(last.data) = 2 /\ Len(last.conditions) = 1
    /\ Resolves(last.name)
    /\ db.exists /\ \E k \in RowIds : db.rows[k] = 1

\* C15: update and delete return the number of rows that satisfy every
\* equality of the conditions (0 when none does) and change exactly those
\* rows; they return -1 exactly when the statement or its commit fails;
\* with conditions absent or empty every row of the table is affected.
C15_UpdateDeleteCount ==
    [][(/\ last'.op \in {"update_data", "delete_data"}
        /\ last'.resolved /\ last'.conditions # <<>>) =>
          LET c == last'.conditions[1]
              m == {k \in RowIds : /\ db.rows[k] # 0
                                   /\ (c.given /\ c.id # 0) => k = c.id
                                   /\ (c.given /\ c.val # 0) => db.rows[k] = c.val}
              error == last'.kind # "none" \/ ~db.exists
          IN /\ (last'.ret = "-1") <=> error
             /\ ~error =>
                   /\ last'.ret = "int" /\ last'.val = Cardinality(m)
                   /\ db'.rows = [k \in RowIds |->
                                    IF k \notin m THEN db.rows[k]
                                    ELSE IF last'.op = "update_data" THEN last'.data[1]
                                    ELSE 0]
                   /\ (~c.given \/ (c.id = 0 /\ c.val = 0)) =>
                         last'.val = Cardinality({k \in RowIds : db.rows[k] # 0})]_vars

\* an update with an empty conditions mapping changed both rows of the table
C15_Witness ==
    /\ last.op = "update_data" /\ last.conditions = <<[given |-> TRUE, id |-> 0, val |-> 0]>>
    /\ last.ret = "int" /\ last.val = 2

\* C14: on a table with n rows matching the conditions, a paginated select
\* with page size s > 0 and page p >= 1 reports total_records = n and
\* total_pages = ceil(n/s) and returns the rows at offsets (p-1)*s up to
\* min(p*s, n) - 1 of the matching rows, so a page beyond total_pages is
\* empty.
C14_Pagination ==
    (/\ last.op = "select_data_with_pagination" /\ last.resolved
     /\ last.page >= 1 /\ last.page_size > 0
     /\ last.kind = "none" /\ db.exists) =>
        LET c == last.conditions[1]
            m == {k \in RowIds : /\ db.rows[k] # 0
                                 /\ c.id # 0 => k = c.id
                                 /\ c.val # 0 => db.rows[k] = c.val}
            n == Cardinality(m)
            s == last.page_size
            p == last.page
            first == (p - 1) * s + 1
            upto == IF p * s < n THEN p * s ELSE n
        IN /\ last.ret = "page"
           /\ last.total_records = n
           /\ (last.val - 1) * s < n /\ n <= last.val * s
           /\ Len(last.rows) = IF upto < first THEN 0 ELSE upto - first + 1
           /\ \A i \in 1..Len(last.rows) :
                 /\ last.rows[i] \in m
                 /\ Cardinality({k \in m : k < last.rows[i]}) = first + i - 2
           /\ p > last.val => last.rows = <<>>

\* the same, for the adapters other than Oracle's
C14_PaginationOffOracle ==
    adapters["a"] # "oracle" => C14_Pagination

\* C16: with add, remove, disposeAll and lookups running at the same time
\* on one registry, the names with a handle are at every moment the names
\* with an adapter, a lookup that got a name's handle also gets its
\* adapter, and disposeAll returns without raising, with both maps empty.
C16_ConcurrentRegistry ==
    /\ ConnNames(connections) = AdapterNames(adapters)
    /\ \A t \in DOMAIN tasks :
          /\ (tasks[t].op = "lookup" /\ tasks[t].pc = "done"
                 /\ tasks[t].gotHandle # NoHandle) => tasks[t].gotAdapter # NoAdapter
          /\ (tasks[t].op = "dispose_all" /\ tasks[t].pc = "done") =>
                 (~tasks[t].raised /\ tasks[t].emptyAtReturn
                    /\ AdapterNames(adapters) = {})

\* C17: the asynchronous batch insert starts one insert per record and
\* returns, without raising, only when all of them have finished;
\* success_count + failure_count = N and failed_records holds, in
\* increasing order, the input positions of the records whose insert
\* failed, in whatever order the inserts finished.
C17_AsyncBatchInsert ==
    last.op = "async_batch_insert_data" /\ last.ret # "pending" =>
        LET N == Len(last.data)
            f == last.failed_records
        IN /\ ~last.raised /\ last.ret = "dict"
           /\ last.nExecuted = N
           /\ Range(last.attemptLog) = {i - 1 : i \in 1..N}
           /\ last.success_count + last.failure_count = N
           /\ Len(f) = last.failure_count
           /\ Range(f) = last.entryFailed
           /\ \A i, j \in 1..Len(f) : i < j => f[i] < f[j]

\* two records with the same key: the second one was inserted first, so
\* the first one failed and is reported at position 0
C17_Witness ==
    /\ last.op = "async_batch_insert_data" /\ Len(last.data) = 2
    /\ last.data[1].id = last.data[2].id
    /\ last.attemptLog = <<1, 0>>
    /\ last.failed_records = <<0>> /\ last.success_count = 1

\* ----- the SQL text for the same request with every value replaced
Erase(m) == [i \in 1..Len(m) |-> [m[i] EXCEPT !.value = IntVal(1)]]

ErasedText(c) ==
    LET adapter == get_adapter(c.name) IN
    IF c.op = "select_data"
    THEN get_select_query_text(adapter, Erase(c.conditions), c.limit).sql
    ELSE IF c.op = "select_data_with_pagination"
    THEN select_data_with_pagination_text(c.name, c.page, c.page_size,
                                          Erase(c.conditions)).call.sql
    ELSE IF c.op = "insert_data"
    THEN insert_data_text(c.name, Erase(c.data)).call.sql
    ELSE IF c.op = "update_data"
    THEN get_update_query_text(adapter, Erase(c.data), Erase(c.conditions)).sql
    ELSE get_delete_query_text(adapter, Erase(c.conditions)).sql

Literals(sql) == {sql[i].v : i \in {j \in 1..Len(sql) : sql[j].t = "lit"}}
ValuesOf(m) == {m[i].value : i \in 1..Len(m)}

TextFreeOfValues(c) ==
    /\ c.sql = ErasedText(c)
    /\ Literals(c.sql) \cap (ValuesOf(c.data) \cup ValuesOf(c.conditions)) = {}
    /\ c.op = "select_data_with_pagination" =>
          c.count_sql = get_count_query_text(get_adapter(c.name),
                                             Erase(c.conditions)).sql

\* C18: no value of data or conditions appears in the SQL text: the text
\* is the one built for the same column names with other values, no
\* literal of the text is one of the values.
C18_NoValueInSqlText ==
    last.resolved /\ last.op # "request" => TextFreeOfValues(last)

\* the same, for requests whose conditions have no key named limit or
\* offset and whose values are not date strings
C18_NoValueInSqlTextOrdinary ==
    /\ last.resolved /\ last.op # "request"
    /\ dict_keys(last.conditions) \cap {<<"limit">>, <<"offset">>} = {}
    /\ \A v \in ValuesOf(last.data) : ~is_datetime_string(v)
    => TextFreeOfValues(last)

Placeholders(sql) == SelectSeq(sql, LAMBDA tok : tok.t = "ph")

DisjointNames(c) ==
    LET ph == Placeholders(c.sql)
        nd == Len(c.data)
    IN /\ Len(c.params) = nd + Len(c.conditions)
       /\ Len(ph) = nd + Len(c.conditions)
       /\ \A i \in 1..nd :
             /\ ph[i].w \in dict_keys(c.params)
             /\ dict_get(c.params, ph[i].w) = c.data[i].value
       /\ \A j \in 1..Len(c.conditions) :
             /\ ph[nd + j].w \in dict_keys(c.params)
             /\ dict_get(c.params, ph[nd + j].w) = c.conditions[j].value

\* C19: the update statement's parameter map has |data| + |conditions|
\* entries and every placeholder resolves to the value given for its
\* column in its own clause, for every data and conditions mapping.
C19_UpdateDisjointNames ==
    last.resolved /\ last.op = "update_data" => DisjointNames(last)

\* the same, for data whose column names do not begin with cond_
C19_UpdateDisjointNamesOrdinary ==
    /\ last.resolved /\ last.op = "update_data"
    /\ \A k \in dict_keys(last.data) : Head(k) # "cond"
    => DisjointNames(last)

\* the same column in both clauses
C19_SameColumn ==
    /\ last.resolved /\ last.op = "update_data"
    /\ dict_keys(last.data) \cap dict_keys(last.conditions) # {}

Unsupported == {"drop_column", "modify_column", "rename_column"}
UnsupportedAt(ops) == {i \in 1..Len(ops) : ops[i].operation \in Unsupported}
Min(S) == CHOOSE x \in S : \A y \in S : x <= y

C25_StoredHandleCurrentOrDisposed ==
    [][\A name \in Names :
          connections[name] # NoHandle =>
              \/ connections'[name] = connections[name]
              \/ connections[name] \in disposed']_vars

\* a successful add replaced the live entry of its name
C25_Replaced ==
    /\ last.op = "add" /\ last.ret = "True"
    /\ connections[last.name] = last.created
    /\ \E h \in 1..nHandles : h < last.created /\ h \notin disposed

\* the columns compared in the WHERE clause of a statement
FilterKeys(sql) == {sql[i].w : i \in {j \in 1..Len(sql) : sql[j].t = "id"}}

\* C26: the limit and offset written into the page query are page_size and
\* (page - 1) * page_size whatever the conditions are, and every key of
\* conditions, one named limit or offset included, is an equality filter of
\* both the COUNT query and the page query.
C26_PageLimitOffset ==
    last.resolved /\ last.op = "select_data_with_pagination" =>
        /\ Literals(last.sql) =
              Literals(select_data_with_pagination_text(
                           last.name, last.page, last.page_size, <<>>).call.sql)
        /\ FilterKeys(last.sql) = dict_keys(last.conditions)
        /\ FilterKeys(last.count_sql) = dict_keys(last.conditions)

\* the same, for conditions with no key named limit or offset
C26_PageLimitOffsetOrdinary ==
    /\ last.resolved /\ last.op = "select_data_with_pagination"
    /\ dict_keys(last.conditions) \cap {<<"limit">>, <<"offset">>} = {}
    => C26_PageLimitOffset

ToDate(key, fmt) == <<Kw("TO_DATE("), Ph(key), Kw(fmt)>>

\* the placeholder of key stands in the statement inside TO_DATE with fmt
BoundThrough(sql, key, fmt) ==
    \E j \in 1..(Len(sql) - 2) : SubSeq(sql, j, j + 2) = ToDate(key, fmt)

\* the placeholder of key stands in the statement on its own
BoundPlain(sql, key) ==
    \E j \in 1..Len(sql) :
        sql[j] = Ph(key) /\ (j = 1 \/ sql[j - 1] # Kw("TO_DATE("))

CanonicalText(value) ==
    CASE value = DateTimeValue(<<2024, 1, 15>>, <<10, 30, 5>>) -> "2024-01-15 10:30:05"
      [] value = DateValue(<<2024, 1, 15>>) -> "2024-01-15 00:00:00"

\* C23: in every row returned by select and by the paginated select, a
\* datetime or date value is replaced by its 'YYYY-MM-DD HH:MM:SS' text (a
\* date gets 00:00:00) and a value that is no temporal object is returned
\* as it was fetched.
C23_TemporalValuesFormatted ==
    (last.op \in {"select_data", "select_data_with_pagination"}
        /\ last.ret \in {"rows", "page"}) =>
        /\ Len(last.rows) = Len(last.fetched)
        /\ \A r \in 1..Len(last.fetched) :
              /\ Len(last.rows[r]) = Len(last.fetched[r])
              /\ \A i \in 1..Len(last.fetched[r]) :
                    LET value == last.fetched[r][i]
                        returned == last.rows[r][i]
                    IN /\ value.k \in {"datetime", "date"} =>
                            returned = StrValue(CanonicalText(value))
                       /\ ~has_strftime(value) => returned = value

\* a page came back whose row holds a date next to a number
C23_Witness ==
    /\ last.op = "select_data_with_pagination" /\ last.ret = "page"
    /\ \E r \in 1..Len(last.fetched) :
          /\ last.fetched[r][1].k = "date" /\ last.fetched[r][2].k = "int"
          /\ last.rows[r][1].k = "str"

\* C27: a call of the execute_query tool served by the facade reaches the
\* data layer with the caller's commit flag as its commit argument and with
\* no params: with commit set a call that succeeds has committed its
\* transaction, without it no transaction is begun.
C27_CommitFlagGoverns ==
    (last.op = "execute_query" /\ last.flag # "" /\ last.resolved) =>
        /\ last.commit = (last.flag = "True")
        /\ last.bound = "None"
        /\ (last.flag = "True" /\ last.kind # "syntax error" /\ last.failedAt = 0)
              => "commit" \in Range(last.txLog)
        /\ last.flag = "False" => last.txLog = <<>>

\* the data layer called with the flag in its own place
C27_DirectCall ==
    /\ last.op = "execute_query" /\ last.flag = "" /\ last.commit
    /\ last.txLog = <<"begin", "commit">>

\* the engine type of a configuration, compared without regard to case
EngineType(conn) == IF conn.type.k = "str" THEN Lower(conn.type.s) ELSE "no string"

\* the configurations the validation is to reject
Listed(conn) ==
    \/ ~Has(conn, "name") \/ ~Has(conn, "type")
    \/ EngineType(conn) \notin valid_types
    \/ /\ EngineType(conn) # "sqlite"
       /\ \/ \E field \in {"host", "port", "username", "password", "database"} :
                ~Has(conn, field)
          \/ ~isinstance_int(conn.port)
          \/ conn.port.n < 1 \/ conn.port.n > 65535
    \/ EngineType(conn) = "sqlite" /\ ~Has(conn, "database")
    \/ Has(conn, "enabled") /\ conn.enabled.k # "bool"

\* C22: validation raises a validation error for every configuration that
\* lacks name or type, whose type is none of the five engine types, that is
\* not SQLite and lacks host, port, username, password or database or has a
\* port that is no integer in 1..65535, that is SQLite and lacks database,
\* or whose enabled is no boolean; it accepts every other configuration.
C22_ValidationRejects ==
    last.op = "validate" =>
        last.ret = IF Listed(last.descs[1]) THEN "ConfigValidationError" ELSE "ok"

\* the same, for configurations whose type, when given, is a string
C22_ValidationRejectsStringType ==
    (last.op = "validate" /\ last.descs[1].type.k \in {"str", "missing"}) =>
        C22_ValidationRejects

\* C28: no two entries of the configuration have the same name.
C28_UniqueNames ==
    \A i, j \in 1..Len(config_data) :
        i # j => config_data[i].name # config_data[j].name

\* add_connection with a name the configuration has returns False and
\* leaves the configuration as it was
C28_AddExistingName ==
    [][(last'.op = "config_add" /\ HasName(config_data, StrValue(last'.name))) =>
          (last'.ret = "False" /\ config_data' = config_data)]_vars

\* C21: a SQLite configuration with only name, type, database and enabled
\* true passes validation and is connected by the reload: its result is
\* True when nothing fails to open.
C21_SqliteMinimalConnects ==
    (last.op = "reload" /\ last.kind = "none") =>
        \A i \in 1..Len(last.descs) :
            LET conn == last.descs[i] IN
            (/\ EngineType(conn) = "sqlite"
             /\ \A field \in {"host", "port", "username", "password"} : ~Has(conn, field)
             /\ \A j \in 1..Len(last.descs) : j # i => last.descs[j].name # conn.name)
            => /\ validate_connection_config(conn) = "ok"
               /\ last.results[conn.name.s] = TRUE
               /\ connections[conn.name.s] # NoHandle

\* the same configuration with the host, port, username and password keys
C21_SqliteFullConnects ==
    (last.op = "reload" /\ last.kind = "none") =>
        \A i \in 1..Len(last.descs) :
            LET conn == last.descs[i] IN
            (/\ \A field \in Fields : Has(conn, field)
             /\ \A j \in 1..Len(last.descs) : j # i => last.descs[j].name # conn.name)
            => /\ last.results[conn.name.s] = TRUE
               /\ connections[conn.name.s] # NoHandle

\* C29: a reload changes the registry entry of a name only when an enabled
\* entry of the configuration has that name and its connection succeeded;
\* it removes no entry and disposes no handle, so the connection of a name
\* that was disabled or deleted in the configuration stays as it was.
C29_ReloadOnlyAddsOrReplaces ==
    [][last'.op = "reload" =>
          /\ disposed' = disposed
          /\ \A name \in Names :
                /\ connections[name] # NoHandle => connections'[name] # NoHandle
                /\ adapters[name] # NoAdapter => adapters'[name] # NoAdapter
                /\ (connections'[name] # connections[name]
                        \/ adapters'[name] # adapters[name]) =>
                      /\ \E i \in 1..Len(config_data) :
                            /\ config_data[i].name = StrValue(name)
                            /\ get_enabled(config_data[i])
                      /\ \E i \in 1..Len(last'.attempts) :
                            /\ last'.attempts[i].name = name
                            /\ last'.attempts[i].ok]_vars

\* after a reload a name is connected that the configuration no longer
\* has enabled, next to an enabled one whose connection failed
C29_Witness ==
    /\ last.op = "reload" /\ last.kind = "test_query"
    /\ \E name \in Names :
          /\ connections[name] # NoHandle
          /\ ~\E i \in 1..Len(config_data) :
                 config_data[i].name = StrValue(name) /\ get_enabled(config_data[i])

\* C30: once the stop flag is set main eventually returns, and when it has
\* returned every registered cleanup callback has run, in registration order
\* and past the ones that raise, every disposal call went through, and the
\* registry is empty
C30_ShutdownCleansUp ==
    /\ (lifecycle.should_stop ~> lifecycle.pc = "returned")
    /\ [](lifecycle.pc = "returned" =>
            /\ lifecycle.ran = [k \in 1..Len(lifecycle.cleanup_callbacks) |-> k]
            /\ Len(lifecycle.disposeCalls) = 2
            /\ ConnNames(connections) = {}
            /\ \A n \in Names : adapters[n] = NoAdapter)

\* the stop flag leads to the return of main
C30_StopLeadsToReturn == lifecycle.should_stop ~> lifecycle.pc = "returned"

\* at the return the callbacks have all run in order and both disposal calls
\* were made, whatever raised
C30_CallbacksAllRan ==
    lifecycle.pc = "returned" =>
        /\ lifecycle.ran = [k \in 1..Len(lifecycle.cleanup_callbacks) |-> k]
        /\ Len(lifecycle.disposeCalls) = 2

\* when the server thread has stored nothing since the last disposal, the
\* registry is empty at the return
C30_EmptyUnlessServedLate ==
    (lifecycle.pc = "returned" /\ added = {}) =>
        (ConnNames(connections) = {} /\ \A n \in Names : adapters[n] = NoAdapter)

\* main has returned with a connection the server thread stored after the
\* second disposal
C30_ServedLate == lifecycle.pc = "returned" /\ ConnNames(connections) # {}

====
